---- MODULE Spec2Model ----
(***************************************************************************)
(* Forecast workbench backend: the ingestion pipeline                      *)
(*   upload -> validate_data -> build_continuous_timeline -> aggregate_data *)
(* and the column standardizer it starts with.                             *)
(*                                                                         *)
(* A CSV file is text: a header (sequence of column names) and rows        *)
(* (sequences of cell strings).  Every stage reads text, parses the        *)
(* columns it works on, and writes text again.                             *)
(***************************************************************************)
EXTENDS Integers, Sequences, FiniteSets, TLC

VARIABLES
    uploaded,         \* the uploaded CSV the latest-upload pointer names
    validated_file,   \* data/validated/validated_raw_data.csv
    continuous_file,  \* data/validated/continuous_data.csv
    daily_file,       \* data/validated/daily_data.csv
    weekly_file,      \* data/validated/weekly_data.csv
    monthly_file,     \* data/validated/monthly_data.csv
    result,           \* what the last request returned (and what it read)
    run,              \* how far the pipeline got, in order, since the last upload
    lines_left,       \* CSV lines that may still be uploaded
    std_columns,      \* input of a direct standardize_columns call
    std_result,       \* its result
    store,            \* data/uploads: the stored uploads by name
    pointer,          \* data/uploads/latest_upload.json
    clock,            \* hours since the server started
    request,          \* a validate_data request between resolving and reading
    eda,              \* the dataset the last exploratory request resolved to
    runs,             \* two validate_data runs in two server processes
    config_files,     \* configs/<env>/project_config_*.yaml
    history,          \* configs/config_history.json
    promo_files,      \* data/uploads/<env>/: the stored promo calendars
    hierarchy,        \* configs/hierarchy_mapping.json
    audit,            \* configs/audit.log
    response,         \* what the last role-gated request answered
    outlier_df,       \* input of a direct outlier_info call
    outlier_result,   \* its result
    utc_offset,       \* hours the server's local time is ahead of UTC
    cleanup           \* the upload-cleanup-worker thread

files == <<validated_file, continuous_file, daily_file, weekly_file, monthly_file>>
pipeline_vars == <<uploaded, files, result, run, lines_left>>
std_vars == <<std_columns, std_result>>
store_vars == <<store, pointer, clock, request>>
eda_vars == <<eda>>
overlap_vars == <<runs>>
gate_vars == <<config_files, history, promo_files, hierarchy, audit, response>>
outlier_vars == <<outlier_df, outlier_result>>
cleanup_vars == <<utc_offset, cleanup>>
beside_pipeline == <<std_vars, store_vars, eda_vars, overlap_vars, gate_vars,
    outlier_vars, cleanup_vars>>
beside_std == <<store_vars, eda_vars, overlap_vars, gate_vars,
    outlier_vars, cleanup_vars>>
beside_store == <<std_vars, eda_vars, overlap_vars, gate_vars,
    outlier_vars, cleanup_vars>>
beside_eda == <<std_vars, store_vars, overlap_vars, gate_vars,
    outlier_vars, cleanup_vars>>
beside_overlap == <<std_vars, store_vars, eda_vars, gate_vars,
    outlier_vars, cleanup_vars>>
beside_gate == <<std_vars, store_vars, eda_vars, overlap_vars,
    outlier_vars, cleanup_vars>>
beside_outlier == <<std_vars, store_vars, eda_vars, overlap_vars,
    gate_vars, cleanup_vars>>
beside_cleanup == <<std_vars, store_vars, eda_vars, overlap_vars,
    gate_vars, outlier_vars>>
vars == <<pipeline_vars, std_vars, store_vars, eda_vars, overlap_vars, gate_vars,
          outlier_vars, cleanup_vars>>

-----------------------------------------------------------------------------
(* Bounds *)

MaxCols == 3     \* columns of a table handed to standardize_columns directly
MaxLines == 4    \* CSV lines (header lines and rows) uploaded in one behaviour
MaxRows == 2     \* rows of one uploaded file
MaxCadenceRows == 4   \* rows of a file validated for its cadence alone
MaxClock == 5    \* hours the uploads directory is followed for
MaxEdaLines == 2 \* CSV lines uploaded in a behaviour with exploratory requests
MaxWrites == 3   \* writes to the configuration store in one behaviour
MaxValues == 4   \* cells of a column handed to outlier_info directly
MaxStored == 3   \* files in the uploads directory at a time
MaxPasses == 2   \* passes of the cleanup thread that are followed

-----------------------------------------------------------------------------
(* Strings *)

UpperChars == {"A", "B", "C", "D", "E", "F", "G", "H", "I", "J", "K", "L", "M",
               "N", "O", "P", "Q", "R", "S", "T", "U", "V", "W", "X", "Y", "Z"}
Lowered == [A |-> "a", B |-> "b", C |-> "c", D |-> "d", E |-> "e", F |-> "f", G |-> "g",
            H |-> "h", I |-> "i", J |-> "j", K |-> "k", L |-> "l", M |-> "m", N |-> "n",
            O |-> "o", P |-> "p", Q |-> "q", R |-> "r", S |-> "s", T |-> "t", U |-> "u",
            V |-> "v", W |-> "w", X |-> "x", Y |-> "y", Z |-> "z"]

\* the value of a one-element set: what it is applied to is computed once
TheOne(S) == CHOOSE x \in S : TRUE

CharAt(s, i) == SubSeq(s, i, i)

RECURSIVE Strip(_)
Strip(s) ==
    IF Len(s) = 0 THEN s
    ELSE IF CharAt(s, 1) = " " THEN Strip(SubSeq(s, 2, Len(s)))
    ELSE IF CharAt(s, Len(s)) = " " THEN Strip(SubSeq(s, 1, Len(s) - 1))
    ELSE s

\* str.lower() on one character: letters outside A-Z do not occur in the model
LowerChar(c) ==
    IF c \in UpperChars THEN Lowered[c] ELSE c

RECURSIVE LowerUnderscore(_)
LowerUnderscore(s) ==
    IF Len(s) = 0 THEN s
    ELSE (IF CharAt(s, 1) = " " THEN "_" ELSE LowerChar(CharAt(s, 1)))
         \o LowerUnderscore(SubSeq(s, 2, Len(s)))

Contains(s, sub) ==
    \E i \in 1..(Len(s) - Len(sub) + 1) : SubSeq(s, i, i + Len(sub) - 1) = sub

-----------------------------------------------------------------------------
(* schema_standardizer.py *)

CANONICAL_COLUMNS == <<
    [canonical |-> "date",
     synonyms |-> <<"date", "order_date", "transaction_date", "day", "timestamp">>],
    [canonical |-> "series_id",
     synonyms |-> <<"series_id", "restaurant_id", "restaurant", "store_id", "store",
                    "location_id", "site_id">>],
    [canonical |-> "item_id",
     synonyms |-> <<"item_id", "sku", "product_id", "menu_item">>],
    [canonical |-> "sales_qty",
     synonyms |-> <<"sales_qty", "salesquantity", "qty", "units", "quantity", "sales",
                    "demand", "orders", "volume">>],
    [canonical |-> "sales_value",
     synonyms |-> <<"sales_value", "amount", "revenue", "gmv", "net_sales", "sales_amt">>],
    [canonical |-> "price",
     synonyms |-> <<"price", "unit_price", "avg_price", "selling_price">>],
    [canonical |-> "inventory_level",
     synonyms |-> <<"inventory_level", "inventory", "stock", "on_hand">>] >>

CanonicalNames == {CANONICAL_COLUMNS[i].canonical : i \in DOMAIN CANONICAL_COLUMNS}

\* "no canonical name": Python's None
NoMatch == ""

normalize(name) == LowerUnderscore(Strip(name))

ExactAt(normalized, i) ==
    \/ normalized = CANONICAL_COLUMNS[i].canonical
    \/ \E k \in DOMAIN CANONICAL_COLUMNS[i].synonyms :
           CANONICAL_COLUMNS[i].synonyms[k] = normalized

SubstringAt(normalized, i) ==
    \E k \in DOMAIN CANONICAL_COLUMNS[i].synonyms :
        Contains(normalized, CANONICAL_COLUMNS[i].synonyms[k])

\* first pass: exact, over the whole vocabulary; second pass: substring
\* for canonical, synonyms in CANONICAL_COLUMNS.items(): ... return canonical
RECURSIVE ExactLoop(_, _)
ExactLoop(normalized, i) ==
    IF i > Len(CANONICAL_COLUMNS) THEN NoMatch
    ELSE IF ExactAt(normalized, i) THEN CANONICAL_COLUMNS[i].canonical
    ELSE ExactLoop(normalized, i + 1)

RECURSIVE SubstringLoop(_, _)
SubstringLoop(normalized, i) ==
    IF i > Len(CANONICAL_COLUMNS) THEN NoMatch
    ELSE IF SubstringAt(normalized, i) THEN CANONICAL_COLUMNS[i].canonical
    ELSE SubstringLoop(normalized, i + 1)

\* one pass: each canonical name is tried exactly and by substring in turn
MatchOnePass(normalized) ==
    IF \E i \in DOMAIN CANONICAL_COLUMNS :
           ExactAt(normalized, i) \/ SubstringAt(normalized, i)
    THEN CANONICAL_COLUMNS[CHOOSE i \in DOMAIN CANONICAL_COLUMNS :
             /\ ExactAt(normalized, i) \/ SubstringAt(normalized, i)
             /\ \A j \in 1..(i - 1) :
                    ~(ExactAt(normalized, j) \/ SubstringAt(normalized, j))].canonical
    ELSE NoMatch

MatchNormalized(normalized) ==
    TheOne({IF exact # NoMatch THEN exact ELSE SubstringLoop(normalized, 1) :
               exact \in {ExactLoop(normalized, 1)}})

match_canonical(column) ==
    TheOne({MatchNormalized(normalized) : normalized \in {normalize(column)}})

\* a dict as the sequence of its <<key, value>> items, in insertion order
DictHas(d, k) == \E i \in DOMAIN d : d[i][1] = k
DictGet(d, k) == d[CHOOSE i \in DOMAIN d : d[i][1] = k][2]
DictSet(d, k, v) ==
    IF DictHas(d, k)
    THEN [i \in DOMAIN d |-> IF d[i][1] = k THEN <<k, v>> ELSE d[i]]
    ELSE Append(d, <<k, v>>)
DictValues(d) == {d[i][2] : i \in DOMAIN d}

\* the loop over df.columns: claim a canonical name for the first column matching it
RECURSIVE RenameLoop(_, _, _, _)
RenameLoop(columns, i, rename_map, taken) ==
    IF i > Len(columns) THEN rename_map
    ELSE LET original == columns[i]
             canonical == match_canonical(original)
         IN  IF canonical # NoMatch /\ canonical \notin taken
             THEN RenameLoop(columns, i + 1, DictSet(rename_map, original, canonical),
                             taken \cup {canonical})
             ELSE RenameLoop(columns, i + 1, rename_map, taken)

\* the same loop without the `taken` guard
RECURSIVE RenameLoopNoTaken(_, _, _, _)
RenameLoopNoTaken(columns, i, rename_map, taken) ==
    IF i > Len(columns) THEN rename_map
    ELSE LET original == columns[i]
             canonical == match_canonical(original)
         IN  IF canonical # NoMatch
             THEN RenameLoopNoTaken(columns, i + 1,
                                    DictSet(rename_map, original, canonical), taken)
             ELSE RenameLoopNoTaken(columns, i + 1, rename_map, taken)

\* df.rename(columns=rename_map)
RenameColumns(columns, rename_map) ==
    [i \in DOMAIN columns |->
        IF DictHas(rename_map, columns[i]) THEN DictGet(rename_map, columns[i])
        ELSE columns[i]]

standardize_columns_unguarded(columns) ==
    LET rename_map == RenameLoopNoTaken(columns, 1, <<>>, {})
    IN  [columns |-> RenameColumns(columns, rename_map), rename_map |-> rename_map]

standardize_columns(columns) ==
    LET rename_map == RenameLoop(columns, 1, <<>>, {})
    IN  [columns |-> RenameColumns(columns, rename_map), rename_map |-> rename_map]

-----------------------------------------------------------------------------
(* Direct calls of standardize_columns *)

StdNames == {"Store", "Txn_Date", "Qty", "order_date", "date", "sales_value",
             "revenue", "Holiday", "notes", " Unit Price "}

StdHeaders == UNION {[1..n -> StdNames] : n \in 0..MaxCols}

NoStdResult == [done |-> FALSE, columns |-> <<>>, rename_map |-> <<>>]

-----------------------------------------------------------------------------
(* Cell text: numbers *)

Digits == "0123456789"

IsDigit(c) == \E i \in 1..10 : CharAt(Digits, i) = c
DigitValue(c) == (CHOOSE i \in 1..10 : CharAt(Digits, i) = c) - 1

RECURSIVE IsDigits(_)
IsDigits(s) ==
    IF Len(s) = 0 THEN FALSE
    ELSE IF Len(s) = 1 THEN IsDigit(s)
    ELSE IsDigit(CharAt(s, 1)) /\ IsDigits(SubSeq(s, 2, Len(s)))

RECURSIVE DigitsValue(_)
DigitsValue(s) ==
    IF Len(s) = 1 THEN DigitValue(s)
    ELSE DigitsValue(SubSeq(s, 1, Len(s) - 1)) * 10 + DigitValue(CharAt(s, Len(s)))

RECURSIVE IntText(_)
IntText(n) ==
    IF n < 10 THEN CharAt(Digits, n + 1)
    ELSE IntText(n \div 10) \o CharAt(Digits, (n % 10) + 1)

\* a missing value (NaN, NaT) is the empty cell, in memory as in the file
NA == ""

\* "12.0": the text of a float64 with an integral value
IsFloatText(s) ==
    /\ Len(s) > 2
    /\ SubSeq(s, Len(s) - 1, Len(s)) = ".0"
    /\ IsDigits(SubSeq(s, 1, Len(s) - 2))

IsNumText(s) == IsDigits(s) \/ IsFloatText(s)

\* value of a numeric cell (the quantities of the model are whole numbers >= 0)
NumValue(s) ==
    IF IsDigits(s) THEN DigitsValue(s) ELSE DigitsValue(SubSeq(s, 1, Len(s) - 2))

FloatText(n) == IntText(n) \o ".0"

-----------------------------------------------------------------------------
(* Cell text: dates.  The calendar window 2024-09-01 .. 2024-10-02; days are  *)
(* counted from 2024-09-01, a Sunday; a timestamp is in hours from that day's *)
(* midnight.                                                                  *)

HoursPerDay == 24

Calendar == << <<0, "2024-09-01">>, <<15, "2024-09-16">>, <<22, "2024-09-23">>,
               <<28, "2024-09-29">>, <<29, "2024-09-30">>, <<30, "2024-10-01">>,
               <<31, "2024-10-02">> >>

ClockTimes == << <<0, " 00:00:00">>, <<12, " 12:00:00">> >>

IsDateText(s) == \E i \in DOMAIN Calendar : Calendar[i][2] = s
DayOfText(s) == Calendar[CHOOSE i \in DOMAIN Calendar : Calendar[i][2] = s][1]
TextOfDay(d) == Calendar[CHOOSE i \in DOMAIN Calendar : Calendar[i][1] = d][2]
IsClockText(s) == \E i \in DOMAIN ClockTimes : ClockTimes[i][2] = s
HourOfText(s) == ClockTimes[CHOOSE i \in DOMAIN ClockTimes : ClockTimes[i][2] = s][1]
TextOfHour(h) == ClockTimes[CHOOSE i \in DOMAIN ClockTimes : ClockTimes[i][1] = h][2]

\* pd.to_datetime(..., errors="coerce") can parse the cell
IsTimestampText(s) ==
    \/ Len(s) = 10 /\ IsDateText(s)
    \/ Len(s) = 19 /\ IsDateText(SubSeq(s, 1, 10)) /\ IsClockText(SubSeq(s, 11, 19))

\* the timestamp a parseable cell denotes
Timestamp(s) ==
    IF Len(s) = 10 THEN DayOfText(s) * HoursPerDay
    ELSE DayOfText(SubSeq(s, 1, 10)) * HoursPerDay + HourOfText(SubSeq(s, 11, 19))

DayOf(ts) == ts \div HoursPerDay
HourOf(ts) == ts % HoursPerDay

\* to_csv of a datetime64 column: the time of day is written unless it is
\* midnight in every row of the column
TimestampText(ts, date_only) ==
    IF date_only THEN TextOfDay(DayOf(ts))
    ELSE TextOfDay(DayOf(ts)) \o TextOfHour(HourOf(ts))

\* Monday = 0
Weekday(d) == (d + 6) % 7
\* the start of a week that runs from Sunday
WeekStartSunday(ts) == (DayOf(ts) - (DayOf(ts) % 7)) * HoursPerDay
\* dt.to_period("W").start_time: Monday 00:00 of the week
WeekStart(ts) == (DayOf(ts) - Weekday(DayOf(ts))) * HoursPerDay
\* dt.to_period("M").start_time: the first of the month, 00:00
MonthStart(ts) == (IF DayOf(ts) < 30 THEN 0 ELSE 30) * HoursPerDay

-----------------------------------------------------------------------------
(* Tables *)

NoFile == [exists |-> FALSE, header |-> <<>>, rows |-> <<>>]
File(header, rows) == [exists |-> TRUE, header |-> header, rows |-> rows]


Range(f) == {f[i] : i \in DOMAIN f}
Count(seq, x) == Cardinality({i \in DOMAIN seq : seq[i] = x})
IndexOf(seq, x) == CHOOSE i \in DOMAIN seq : seq[i] = x /\ \A j \in DOMAIN seq : seq[j] = x => i <= j
Column(rows, c) == [r \in DOMAIN rows |-> rows[r][c]]

RECURSIVE SelectRows(_, _)
SelectRows(rows, keep) ==
    IF rows = <<>> THEN <<>>
    ELSE LET rest == SelectRows([i \in 1..(Len(rows) - 1) |-> rows[i + 1]],
                                [i \in 1..(Len(rows) - 1) |-> keep[i + 1]])
         IN  IF keep[1] THEN <<rows[1]>> \o rest ELSE rest

\* the dtype read_csv infers for a column, or a column has after NaN entered it:
\* whole numbers stay int64 until a value is missing, then the column is float64
ColumnIsNumeric(cells) ==
    /\ \A r \in DOMAIN cells : cells[r] = NA \/ IsNumText(cells[r])
    /\ \E r \in DOMAIN cells : IsNumText(cells[r])
ColumnIsFloat(cells) ==
    /\ ColumnIsNumeric(cells)
    /\ \E r \in DOMAIN cells : cells[r] = NA \/ IsFloatText(cells[r])

NumericText(cells) ==
    [r \in DOMAIN cells |->
        IF cells[r] = NA THEN NA
        ELSE IF ColumnIsFloat(cells) THEN FloatText(NumValue(cells[r]))
        ELSE cells[r]]

\* the text of every column under its dtype
ColumnTexts(header, rows) ==
    LET col(c) == IF ColumnIsNumeric(Column(rows, c)) THEN NumericText(Column(rows, c))
                  ELSE Column(rows, c)
        cols == [c \in DOMAIN header |-> col(c)]
    IN  [r \in DOMAIN rows |-> [c \in DOMAIN header |-> cols[c][r]]]

\* pandas renames a repeated header name X to X.1, X.2, ...
MangleDupeCols(header) ==
    [i \in DOMAIN header |->
        LET earlier == Cardinality({j \in 1..(i - 1) : header[j] = header[i]})
        IN  IF earlier = 0 THEN header[i] ELSE header[i] \o "." \o IntText(earlier)]

read_csv(file) ==
    [header |-> MangleDupeCols(file.header),
     rows |-> ColumnTexts(file.header, file.rows)]

\* df.to_csv(path, index=False)
to_csv(header, rows) ==
    TheOne({File(header, ColumnTexts(header, table)) : table \in {rows \o <<>>}})

-----------------------------------------------------------------------------
(* Ordering and grouping *)

\* the characters of the model in code-point order: Python compares str this way
CharOrder == " -.0123456789:ABCDEFGHIJKLMNOPQRSTUVWXYZ_abcdefghijklmnopqrstuvwxyz"
CharRank(c) == CHOOSE i \in 1..Len(CharOrder) : CharAt(CharOrder, i) = c

RECURSIVE StringLess(_, _)
StringLess(a, b) ==
    IF Len(b) = 0 THEN FALSE
    ELSE IF Len(a) = 0 THEN TRUE
    ELSE IF CharAt(a, 1) = CharAt(b, 1)
         THEN StringLess(SubSeq(a, 2, Len(a)), SubSeq(b, 2, Len(b)))
         ELSE CharRank(CharAt(a, 1)) < CharRank(CharAt(b, 1))

\* rows carried with their parsed keys: [series, ts, cells]
KeyLess(a, b) ==
    \/ StringLess(a.series, b.series)
    \/ a.series = b.series /\ a.ts < b.ts
\* equality of whole rows: drop_duplicates() without subset=
SameRow(a, b) == a.series = b.series /\ a.ts = b.ts /\ a.cells = b.cells
SameKey(a, b) == a.series = b.series /\ a.ts = b.ts

\* insert x behind every element that is not greater: the sort is stable
RECURSIVE InsertStable(_, _)
InsertStable(sorted, x) ==
    IF sorted = <<>> THEN <<x>>
    ELSE IF KeyLess(x, sorted[1]) THEN <<x>> \o sorted
    ELSE <<sorted[1]>> \o InsertStable(Tail(sorted), x)

\* df.sort_values([id, date]): a multi-column sort is a stable lexsort
RECURSIVE SortStable(_)
SortStable(recs) ==
    IF recs = <<>> THEN <<>>
    ELSE InsertStable(SortStable(SubSeq(recs, 1, Len(recs) - 1)), recs[Len(recs)])

\* keep="last": the row the code must not keep
RECURSIVE DropDuplicatesKeepLast(_)
DropDuplicatesKeepLast(recs) ==
    IF recs = <<>> THEN <<>>
    ELSE IF \E i \in 2..Len(recs) : SameKey(recs[i], recs[1])
         THEN DropDuplicatesKeepLast(Tail(recs))
         ELSE <<recs[1]>> \o DropDuplicatesKeepLast(Tail(recs))

\* df.drop_duplicates(subset=[id, date]): keep="first"
RECURSIVE DropDuplicates(_)
DropDuplicates(recs) ==
    IF recs = <<>> THEN <<>>
    ELSE LET n == Len(recs)
             front == SubSeq(recs, 1, n - 1)
         IN  IF \E i \in 1..(n - 1) : SameKey(recs[i], recs[n])
             THEN DropDuplicates(front)
             ELSE Append(DropDuplicates(front), recs[n])

RECURSIVE SetToSortedSeq(_)
SetToSortedSeq(S) ==
    IF S = {} THEN <<>>
    ELSE LET m == CHOOSE x \in S : \A y \in S : x <= y
         IN  <<m>> \o SetToSortedSeq(S \ {m})

RECURSIVE SumSeq(_)
SumSeq(seq) == IF seq = <<>> THEN 0 ELSE seq[1] + SumSeq(Tail(seq))

-----------------------------------------------------------------------------
(* validator.py *)

SINGLE_SERIES == "single_series"

\* gaps in whole days between consecutive distinct dates; the most frequent one,
\* the smallest of them on a tie (Series.mode() is sorted)
detect_granularity(dates) ==
    LET unique_dates == SetToSortedSeq(Range(dates))
        deltas == [i \in 1..(Len(unique_dates) - 1) |->
                      (unique_dates[i + 1] - unique_dates[i]) \div HoursPerDay]
        freq(g) == Count(deltas, g)
        gap == CHOOSE g \in Range(deltas) :
                  \A h \in Range(deltas) : freq(h) < freq(g) \/ (freq(h) = freq(g) /\ g <= h)
    IN  IF Len(unique_dates) < 2 THEN "daily"
        ELSE IF gap <= 1 THEN "daily"
        ELSE IF gap <= 7 THEN "weekly"
        ELSE "monthly"

NoSummary ==
    [rows_before |-> 0, rows_after |-> 0, duplicates_removed |-> 0,
     missing_counts |-> <<>>, detected_granularity |-> "",
     missing_dates_filled |-> 0, daily_rows |-> 0, weekly_rows |-> 0, monthly_rows |-> 0]

\* what a stage did: the error it raised ("" when it returned), the files it
\* wrote before that, and the summary it returned
Raised(error) == [error |-> error, wrote |-> FALSE, out |-> NoFile, summary |-> NoSummary]
Returned(out, summary) == [error |-> "", wrote |-> TRUE, out |-> out, summary |-> summary]

TRACKED_COLUMNS == <<"price", "inventory_level", "sales_qty", "series_id">>

\* the body of validate_data from the standardized frame on; `columns` are the
\* standardized names, `header` those plus series_id when it was synthesized
ValidateRows(df, columns, header) ==
    LET n == Len(df.rows)
        has_series == Count(columns, "series_id") > 0
        di == IndexOf(header, "date")
        si == IndexOf(header, "series_id")
        qi == IndexOf(header, "sales_qty")
        raw(r) == IF has_series THEN df.rows[r] ELSE Append(df.rows[r], SINGLE_SERIES)
        series(r) ==
            IF raw(r)[si] = NA \/ Strip(raw(r)[si]) = "" THEN SINGLE_SERIES
            ELSE Strip(raw(r)[si])
        parsed_date(r) == IsTimestampText(raw(r)[di])
        parsed_qty(r) == IsNumText(raw(r)[qi])
        \* to_numeric leaves int64 only if nothing was coerced to NaN
        qty_float == \E r \in 1..n : ~parsed_qty(r) \/ IsFloatText(raw(r)[qi])
        rec(r) == [series |-> series(r),
                   ts |-> IF parsed_date(r) THEN Timestamp(raw(r)[di]) ELSE -1,
                   cells |-> raw(r)]
        kept == SelectRows([r \in 1..n |-> rec(r)],
                           [r \in 1..n |-> parsed_date(r) /\ parsed_qty(r)])
        before_dedup == Len(kept)
        deduped == DropDuplicates(SortStable(kept))
        date_only == \A i \in DOMAIN deduped : HourOf(deduped[i].ts) = 0
        cell(i, c) ==
            IF c = di THEN TimestampText(deduped[i].ts, date_only)
            ELSE IF c = si THEN deduped[i].series
            ELSE IF c = qi THEN (IF qty_float THEN FloatText(NumValue(deduped[i].cells[c]))
                                 ELSE deduped[i].cells[c])
            ELSE deduped[i].cells[c]
        rows == [i \in DOMAIN deduped |-> [c \in DOMAIN header |-> cell(i, c)]]
        tracked == SelectRows(TRACKED_COLUMNS,
                              [k \in DOMAIN TRACKED_COLUMNS |->
                                  Count(header, TRACKED_COLUMNS[k]) > 0])
        missing_counts ==
            [k \in DOMAIN tracked |->
                <<tracked[k], Count(Column(rows, IndexOf(header, tracked[k])), NA)>>]
    IN  IF \E k \in DOMAIN tracked : Count(header, tracked[k]) > 1
        THEN Raised("TypeError")     \* int() of a two-column isna().sum()
        ELSE Returned(to_csv(header, rows),
                 [NoSummary EXCEPT
                     !.rows_before = n,
                     !.rows_after = Len(rows),
                     !.duplicates_removed = before_dedup - Len(deduped),
                     !.missing_counts = missing_counts,
                     !.detected_granularity =
                         detect_granularity([i \in DOMAIN deduped |-> deduped[i].ts])])

\* validate_data from the standardized names on: the raises that come before
\* any parsing, then the rows
ValidateColumns(df, columns) ==
    IF Count(columns, "date") = 0
    THEN Raised("ValueError: no date column")
    ELSE IF Count(columns, "date") > 1
    THEN Raised("ValueError")        \* to_datetime of a two-column frame
    ELSE IF Count(columns, "series_id") > 1
    THEN Raised("AttributeError")    \* a two-column frame has no .str
    ELSE IF Count(columns, "sales_qty") = 0
    THEN Raised("ValueError: no sales quantity column")
    ELSE IF Count(columns, "sales_qty") > 1
    THEN Raised("TypeError")         \* to_numeric of a two-column frame
    ELSE TheOne({ValidateRows(df, columns, header) :
                    header \in {IF Count(columns, "series_id") > 0 THEN columns
                                ELSE Append(columns, "series_id")}})

\* a validator that persisted the frame before looking for its columns
ValidateFrameWritesFirst(df) ==
    IF Len(df.rows) = 0 \/ Len(df.header) = 0
    THEN Raised("ValueError: no rows")
    ELSE TheOne({IF Count(columns, "date") = 0 \/ Count(columns, "sales_qty") = 0
                 THEN [ValidateColumns(df, columns) EXCEPT
                          !.wrote = TRUE, !.out = to_csv(columns, df.rows)]
                 ELSE ValidateColumns(df, columns) :
                    columns \in {standardize_columns(
                                     [i \in DOMAIN df.header |-> Strip(df.header[i])]).columns}})

ValidateFrame(df) ==
    IF Len(df.rows) = 0 \/ Len(df.header) = 0
    THEN Raised("ValueError: no rows")
    ELSE TheOne({ValidateColumns(df, columns) :
                    columns \in {standardize_columns(
                                     [i \in DOMAIN df.header |-> Strip(df.header[i])]).columns}})

validate_data(target) == TheOne({ValidateFrame(df) : df \in {read_csv(target)}})

-----------------------------------------------------------------------------
(* timeline_builder.py *)

\* the keys of df.groupby(col): the distinct values, sorted, NaN left out
\* df.groupby(...) sorts the group keys: an int64 or float64 column by value, an
\* object column of str by code point
SeriesKeyLess(numeric, a, b) ==
    IF numeric THEN NumValue(a) < NumValue(b) ELSE StringLess(a, b)

RECURSIVE SortedKeys(_, _)
SortedKeys(S, numeric) ==
    IF S = {} THEN <<>>
    ELSE LET m == CHOOSE x \in S : \A y \in S \ {x} : SeriesKeyLess(numeric, x, y)
         IN  <<m>> \o SortedKeys(S \ {m}, numeric)

\* the same order on the pairs (series_id, period start)
RECURSIVE SortedGroupKeys(_, _)
SortedGroupKeys(S, numeric) ==
    IF S = {} THEN <<>>
    ELSE LET m == CHOOSE x \in S : \A y \in S \ {x} :
                      \/ SeriesKeyLess(numeric, x.series, y.series)
                      \/ x.series = y.series /\ x.ts < y.ts
         IN  <<m>> \o SortedGroupKeys(S \ {m}, numeric)

RECURSIVE Concat(_)
Concat(seqs) == IF seqs = <<>> THEN <<>> ELSE seqs[1] \o Concat(Tail(seqs))

\* pd.date_range(start, end, freq="D"): start, start + 1 day, ... while <= end
date_range(start, end) ==
    [k \in 1..((end - start) \div HoursPerDay + 1) |-> start + (k - 1) * HoursPerDay]

\* one series: the full daily range, the group's rows left-joined onto it;
\* rows are [series, ts, cells] with cells the columns other than the two keys
MergeGroup(series_id, group, width) ==
    LET sorted == SortStable(group)
        dated == {i \in DOMAIN sorted : sorted[i].ts >= 0}
        lo == CHOOSE t \in {sorted[i].ts : i \in dated} :
                  \A i \in dated : t <= sorted[i].ts
        hi == CHOOSE t \in {sorted[i].ts : i \in dated} :
                  \A i \in dated : t >= sorted[i].ts
        full_dates == date_range(lo, hi)
        matches(d) == SelectRows(sorted, [i \in DOMAIN sorted |-> sorted[i].ts = d])
        gap(d) == [series |-> series_id, ts |-> d, cells |-> [c \in 1..width |-> NA]]
    IN  Concat([k \in DOMAIN full_dates |->
                   IF matches(full_dates[k]) = <<>> THEN <<gap(full_dates[k])>>
                   ELSE matches(full_dates[k])])

\* merged.isna().any(axis=1).sum(): rows with a missing value in any column
RowsWithNA(recs) ==
    Cardinality({i \in DOMAIN recs : \E c \in DOMAIN recs[i].cells : recs[i].cells[c] = NA})

\* the rows of the combined frame as to_csv writes them
TimelineRows(combined) ==
    TheOne({[i \in DOMAIN combined |->
                <<combined[i].series, TimestampText(combined[i].ts, date_only)>>
                \o combined[i].cells] :
            date_only \in {\A i \in DOMAIN combined : HourOf(combined[i].ts) = 0}})

build_continuous_timeline(df) ==
    LET n == Len(df.rows)
        id_col == "series_id"
        date_col == "date"
        si == IndexOf(df.header, id_col)
        di == IndexOf(df.header, date_col)
        others == SelectRows([c \in DOMAIN df.header |-> c],
                             [c \in DOMAIN df.header |-> c # si /\ c # di])
        rec(r) == [series |-> df.rows[r][si],
                   ts |-> IF IsTimestampText(df.rows[r][di])
                          THEN Timestamp(df.rows[r][di]) ELSE -1,
                   cells |-> [k \in DOMAIN others |-> df.rows[r][others[k]]]]
        recs == [r \in 1..n |-> rec(r)]
        keys == SortedKeys({recs[r].series : r \in 1..n} \ {NA},
                           ColumnIsNumeric(Column(df.rows, si)))
        group(s) == SelectRows(recs, [r \in 1..n |-> recs[r].series = s])
        frames == [g \in DOMAIN keys |->
                      TheOne({MergeGroup(keys[g], rows_of_group, Len(others)) :
                                 rows_of_group \in {group(keys[g])}})]
        header == <<id_col, date_col>> \o [k \in DOMAIN others |-> df.header[others[k]]]
    IN  IF n = 0 \/ Len(df.header) = 0
        THEN Raised("ValueError: empty")
        ELSE IF Count(df.header, id_col) = 0 \/ Count(df.header, date_col) = 0
        THEN Raised("ValueError: required columns missing")
        ELSE IF \A r \in 1..n : recs[r].ts < 0
        THEN Raised("ValueError: date column could not be parsed")
        ELSE IF \E g \in DOMAIN keys : \A r \in 1..n : recs[r].series = keys[g] => recs[r].ts < 0
        THEN Raised("ValueError")      \* date_range(NaT, NaT)
        ELSE IF keys = <<>>
        THEN Raised("ValueError")      \* pd.concat of no frames
        ELSE TheOne({Returned(to_csv(header, TimelineRows(Concat(merged))),
                              [NoSummary EXCEPT !.missing_dates_filled =
                                  SumSeq([g \in DOMAIN merged |-> RowsWithNA(merged[g])])]) :
                        merged \in {frames \o <<>>}})

-----------------------------------------------------------------------------
(* aggregator.py *)

\* a sum that stops at the first value of the group
FirstCell(cells) ==
    IF \E i \in DOMAIN cells : cells[i] # NA
    THEN NumValue(cells[CHOOSE i \in DOMAIN cells :
                            cells[i] # NA /\ \A j \in 1..(i - 1) : cells[j] = NA])
    ELSE 0

\* "sum": missing values are skipped, an all-missing group sums to 0
SumCells(cells) ==
    SumSeq([i \in DOMAIN cells |-> IF cells[i] = NA THEN 0 ELSE NumValue(cells[i])])

\* "mean" over the values present, missing when there is none; the prices of
\* the model keep the quotient whole
MeanCell(cells) ==
    LET present == SelectRows(cells, [i \in DOMAIN cells |-> cells[i] # NA])
    IN  IF present = <<>> THEN NA
        ELSE FloatText(SumCells(present) \div Len(present))

\* the output row of one group: its keys, "sum" of sales_qty, "mean" of price
GroupRow(key, members, has_price, qty_float) ==
    LET qty == SumCells([m \in DOMAIN members |-> members[m].cells[1]])
        price == MeanCell([m \in DOMAIN members |-> members[m].cells[2]])
    IN  <<key.series, TimestampText(key.ts, TRUE),
          IF qty_float THEN FloatText(qty) ELSE IntText(qty)>>
        \o (IF has_price THEN <<price>> ELSE <<>>)

\* df.groupby([id_col, period]).agg(...).reset_index(): one row per key, sorted
GroupAgg(recs, has_price, qty_float) ==
    LET keyed == {i \in DOMAIN recs : recs[i].series # NA /\ recs[i].ts >= 0}
        firsts == SelectRows(recs,
                     [i \in DOMAIN recs |->
                         i \in keyed /\ \A j \in 1..(i - 1) :
                             j \in keyed => ~SameKey(recs[j], recs[i])])
        members(key) == SelectRows(recs, [i \in DOMAIN recs |->
                                             i \in keyed /\ SameKey(recs[i], key)])
    IN  TheOne({[k \in DOMAIN keys |->
                    TheOne({GroupRow(keys[k], rows_of_group, has_price, qty_float) :
                               rows_of_group \in {members(keys[k])}})] :
                keys \in {SortedGroupKeys(
                             {[series |-> firsts[i].series, ts |-> firsts[i].ts] :
                                 i \in DOMAIN firsts},
                             ColumnIsNumeric([i \in DOMAIN recs |-> recs[i].series]))}})

\* the daily frame with its week and month columns, as to_csv writes it
DailyRows(df, di, date_only) ==
    [r \in DOMAIN df.rows |->
        IF IsTimestampText(df.rows[r][di])
        THEN [c \in DOMAIN df.header |->
                 IF c = di THEN TimestampText(Timestamp(df.rows[r][di]), date_only)
                 ELSE df.rows[r][c]]
             \o <<TimestampText(WeekStart(Timestamp(df.rows[r][di])), TRUE),
                  TimestampText(MonthStart(Timestamp(df.rows[r][di])), TRUE)>>
        ELSE [c \in DOMAIN df.header |-> IF c = di THEN NA ELSE df.rows[r][c]]
             \o <<NA, NA>>]

aggregate_data(df) ==
    LET n == Len(df.rows)
        id_col == "series_id"
        date_col == "date"
        si == IndexOf(df.header, id_col)
        di == IndexOf(df.header, date_col)
        qi == IndexOf(df.header, "sales_qty")
        has_price == Count(df.header, "price") > 0
        pi == IndexOf(df.header, "price")
        parsed(r) == IsTimestampText(df.rows[r][di])
        ts(r) == Timestamp(df.rows[r][di])
        period_rec(r, start) ==
            [series |-> df.rows[r][si], ts |-> start,
             cells |-> <<df.rows[r][qi], IF has_price THEN df.rows[r][pi] ELSE NA>>]
        by_week == [r \in 1..n |-> period_rec(r, IF parsed(r) THEN WeekStart(ts(r)) ELSE -1)]
        by_month == [r \in 1..n |-> period_rec(r, IF parsed(r) THEN MonthStart(ts(r)) ELSE -1)]
        agg_header == <<id_col, date_col, "sales_qty">>
                      \o (IF has_price THEN <<"price">> ELSE <<>>)
    IN  IF n = 0 \/ Len(df.header) = 0
        THEN Raised("ValueError: empty")
        ELSE IF Count(df.header, id_col) = 0 \/ Count(df.header, date_col) = 0
        THEN Raised("ValueError: required columns missing")
        ELSE IF \A r \in 1..n : ~parsed(r)
        THEN Raised("ValueError: date column could not be parsed")
        ELSE IF Count(df.header, "sales_qty") = 0
        THEN Raised("KeyError")
        ELSE TheOne({Returned(
                        [daily |-> to_csv(df.header \o <<"week", "month">>,
                                          DailyRows(df, di, date_only)),
                         weekly |-> to_csv(agg_header, GroupAgg(weeks, has_price, qty_float)),
                         monthly |-> to_csv(agg_header, GroupAgg(months, has_price, qty_float))],
                        [NoSummary EXCEPT
                            !.daily_rows = n,
                            !.weekly_rows = Len(GroupAgg(weeks, has_price, qty_float)),
                            !.monthly_rows = Len(GroupAgg(months, has_price, qty_float))]) :
                     weeks \in {by_week \o <<>>},
                     months \in {by_month \o <<>>},
                     date_only \in {\A r \in 1..n : parsed(r) => HourOf(ts(r)) = 0},
                     qty_float \in {ColumnIsFloat(Column(df.rows, qi))}})

-----------------------------------------------------------------------------
(* The uploads of the model *)

QtyCells == {"1", "2"}
PriceCells == {"", "4"}

\* rows of a sales export: store A twice on one timestamp with either quantity, at
\* noon of that day, and on two days of the week after; the same store written with
\* a leading blank; a row without a store; a row with a bad date and a row with a
\* bad quantity
SalesRows ==
    {<<"A", "2024-09-29 00:00:00", q>> : q \in QtyCells}
    \cup {<<"A", "2024-09-29 12:00:00", "1">>, <<"A", "2024-10-01 00:00:00", "2">>,
          <<"A", "2024-10-02 00:00:00", "1">>}
    \cup {<<" A", "2024-09-29 00:00:00", "2">>, <<"", "2024-09-29 00:00:00", "1">>}
    \cup {<<"A", "not a date", "1">>, <<"A", "2024-09-29 00:00:00", "x">>}

Templates == <<
    [header |-> <<"Store", "Txn_Date", "Qty">>, rows |-> SalesRows],
    \* one series, with a price that may be blank
    [header |-> <<"Date", "Units", "Unit Price">>,
     rows |-> {<<d, "1", p>> : d \in {"2024-09-29 00:00:00", "2024-10-02 00:00:00"},
                               p \in PriceCells}],
    \* no date-like column
    [header |-> <<"Store", "Qty">>, rows |-> {<<"A", "1">>}],
    \* no quantity-like column
    [header |-> <<"Store", "Txn_Date">>, rows |-> {<<"A", "2024-09-29 00:00:00">>}] >>

-----------------------------------------------------------------------------
(* main.py: the requests *)

\* from utils.validator import validate_data as run_data_validation
run_data_validation(file) == validate_data(file)
\* df = pd.read_csv(VALIDATED_FILE); build_continuous_timeline(df)
run_timeline(file) == TheOne({build_continuous_timeline(df) : df \in {read_csv(file)}})
\* df = pd.read_csv(CONTINUOUS_FILE); run_aggregation(df)
run_aggregation(file) == TheOne({aggregate_data(df) : df \in {read_csv(file)}})

Result(op, target, input, outcome) ==
    [op |-> op, target |-> target, input |-> input,
     error |-> outcome.error, summary |-> outcome.summary]

NoResult == Result("none", "", NoFile, Raised(""))

\* POST /api/upload_csv: the file is stored and becomes the latest upload
UploadCsv ==
    \E t \in DOMAIN Templates :
        \E n \in 0..MaxRows :
            /\ n + 1 <= lines_left
            /\ \E rows \in [1..n -> Templates[t].rows] :
                /\ uploaded' = File(Templates[t].header, rows)
                /\ lines_left' = lines_left - (n + 1)
                /\ result' = Result("upload_csv", "", NoFile, Raised(""))
                /\ run' = "uploaded"
                /\ UNCHANGED <<files, beside_pipeline>>

\* validate_data that also removes the files derived from the earlier validated file
ValidateDataClearsDerived ==
    \E target \in {"latest", "validated"} :
        \E file \in {IF target = "latest" THEN uploaded ELSE validated_file} :
            \E outcome \in {IF file.exists THEN run_data_validation(file)
                             ELSE Raised("FileNotFoundError")} :
                /\ validated_file' = IF outcome.wrote THEN outcome.out ELSE validated_file
                /\ continuous_file' = IF outcome.wrote THEN NoFile ELSE continuous_file
                /\ daily_file' = IF outcome.wrote THEN NoFile ELSE daily_file
                /\ weekly_file' = IF outcome.wrote THEN NoFile ELSE weekly_file
                /\ monthly_file' = IF outcome.wrote THEN NoFile ELSE monthly_file
                /\ result' = Result("validate_data", target, file, outcome)
                /\ run' = IF run = "uploaded" /\ target = "latest" /\ file.exists
                          THEN (IF outcome.error = "" THEN "validated"
                                ELSE "validate failed")
                          ELSE "out of order"
                /\ UNCHANGED <<uploaded, lines_left, beside_pipeline>>

\* POST /api/validate_data, for the latest upload or for a named file: here the
\* validated file itself, by its path
ValidateData ==
    \E target \in {"latest", "validated"} :
        \E file \in {IF target = "latest" THEN uploaded ELSE validated_file} :
            \E outcome \in {IF file.exists THEN run_data_validation(file)
                             ELSE Raised("FileNotFoundError")} :
                /\ validated_file' = IF outcome.wrote THEN outcome.out ELSE validated_file
                /\ result' = Result("validate_data", target, file, outcome)
                /\ run' = IF run = "uploaded" /\ target = "latest" /\ file.exists
                          THEN (IF outcome.error = "" THEN "validated"
                                ELSE "validate failed")
                          ELSE "out of order"
                /\ UNCHANGED <<uploaded, continuous_file, daily_file, weekly_file,
                               monthly_file, lines_left, beside_pipeline>>

\* POST /api/build_timeline
BuildTimeline ==
    \E outcome \in {IF validated_file.exists THEN run_timeline(validated_file)
                     ELSE Raised("404")} :
        /\ continuous_file' = IF outcome.wrote THEN outcome.out ELSE continuous_file
        /\ result' = Result("build_timeline", "", validated_file, outcome)
        /\ run' = IF run = "validated"
                  THEN (IF outcome.error = "" THEN "timeline" ELSE "timeline failed")
                  ELSE "out of order"
        /\ UNCHANGED <<uploaded, validated_file, daily_file, weekly_file, monthly_file,
                       lines_left, beside_pipeline>>

\* df.to_csv(daily_path) moved up to the copy of the frame, before the checks
AggregateDataWritesDailyFirst ==
    \E outcome \in {IF continuous_file.exists THEN run_aggregation(continuous_file)
                     ELSE Raised("404")} :
        /\ daily_file' = IF outcome.wrote THEN outcome.out.daily
                         ELSE IF continuous_file.exists THEN continuous_file
                         ELSE daily_file
        /\ weekly_file' = IF outcome.wrote THEN outcome.out.weekly ELSE weekly_file
        /\ monthly_file' = IF outcome.wrote THEN outcome.out.monthly ELSE monthly_file
        /\ result' = Result("aggregate_data", "", continuous_file, outcome)
        /\ run' = IF run = "timeline"
                  THEN (IF outcome.error = "" THEN "aggregated" ELSE "aggregate failed")
                  ELSE "out of order"
        /\ UNCHANGED <<uploaded, validated_file, continuous_file, lines_left, beside_pipeline>>

\* POST /api/aggregate_data
AggregateData ==
    \E outcome \in {IF continuous_file.exists THEN run_aggregation(continuous_file)
                     ELSE Raised("404")} :
        /\ daily_file' = IF outcome.wrote THEN outcome.out.daily ELSE daily_file
        /\ weekly_file' = IF outcome.wrote THEN outcome.out.weekly ELSE weekly_file
        /\ monthly_file' = IF outcome.wrote THEN outcome.out.monthly ELSE monthly_file
        /\ result' = Result("aggregate_data", "", continuous_file, outcome)
        /\ run' = IF run = "timeline"
                  THEN (IF outcome.error = "" THEN "aggregated" ELSE "aggregate failed")
                  ELSE "out of order"
        /\ UNCHANGED <<uploaded, validated_file, continuous_file, lines_left, beside_pipeline>>

-----------------------------------------------------------------------------
(* The uploads directory: main.py upload_csv and the cleanup thread,          *)
(* validator.py _resolve_target_file.  A stored upload is named by the second *)
(* it was written in and the suffix of the name it was sent under; time is in *)
(* hours.                                                                     *)

UPLOAD_RETENTION_HOURS == 2

Suffixes == {".csv", ".txt"}
Name(t, s) == [stamp |-> t, suffix |-> s]
\* no filename given, no path in the pointer
NoName == Name(-1, "")
Names == {Name(t, s) : t \in 0..MaxClock, s \in Suffixes}

\* what an upload may hold: a table with one good row, a table without rows
StoreContents ==
    {File(<<"Store", "Txn_Date", "Qty">>, << <<"A", "2024-09-29 00:00:00", "1">> >>),
     File(<<"Store", "Txn_Date", "Qty">>, <<>>)}

NoRequest == [phase |-> "idle", filename |-> NoName, target |-> NoName, error |-> ""]

\* destination.write_bytes(content)
WriteBytes(dir, name, content) ==
    [n \in DOMAIN dir \cup {name} |-> IF n = name THEN content ELSE dir[n]]
\* file.unlink()
Unlink(dir, name) == [n \in DOMAIN dir \ {name} |-> dir[n]]

\* uploads_dir.glob("*.csv")
GlobCsv(dir) == {n \in DOMAIN dir : n.suffix = ".csv"}

\* sorted(glob, key=st_mtime)[0]: the file modified first
oldest_upload_path(dir) ==
    IF GlobCsv(dir) = {} THEN [target |-> NoName, error |-> "FileNotFoundError: no uploads"]
    ELSE [target |-> CHOOSE n \in GlobCsv(dir) : \A m \in GlobCsv(dir) : m.stamp >= n.stamp,
          error |-> ""]

\* sorted(glob, key=st_mtime)[-1]: a file is modified when it is written, in the
\* second its name carries
latest_upload_path(dir) ==
    IF GlobCsv(dir) = {} THEN [target |-> NoName, error |-> "FileNotFoundError: no uploads"]
    ELSE [target |-> CHOOSE n \in GlobCsv(dir) : \A m \in GlobCsv(dir) : m.stamp <= n.stamp,
          error |-> ""]

resolve_target_file(filename, dir, info_path) ==
    IF filename # NoName
    THEN (IF filename \in DOMAIN dir THEN [target |-> filename, error |-> ""]
          ELSE [target |-> NoName, error |-> "FileNotFoundError: not in uploads"])
    ELSE IF info_path # NoName /\ info_path \in DOMAIN dir
    THEN [target |-> info_path, error |-> ""]
    ELSE latest_upload_path(dir)

\* POST /api/upload_csv: _persist_upload, then _record_latest_upload
StoreUpload ==
    /\ request.phase # "resolved"
    /\ \E suffix \in Suffixes, content \in StoreContents :
          /\ Cardinality(DOMAIN store \cup {Name(clock, suffix)}) <= MaxStored
          /\ store' = WriteBytes(store, Name(clock, suffix), content)
          /\ pointer' = Name(clock, suffix)
    /\ result' = Result("upload_csv", "", NoFile, Raised(""))
    /\ run' = "uploaded"
    /\ UNCHANGED <<uploaded, files, lines_left, clock, request, beside_store>>

\* an hour passes
Tick ==
    /\ clock < MaxClock
    /\ clock' = clock + 1
    /\ UNCHANGED <<pipeline_vars, store, pointer, request, beside_store>>

\* now - modified_time > cutoff, with now = datetime.utcnow() and modified_time =
\* datetime.fromtimestamp(st_mtime): the first is the UTC wall clock, the second
\* the local one, both without a time zone
Expired(file, now) == now - (file.stamp + utc_offset) > UPLOAD_RETENTION_HOURS

\* _cleanup_old_uploads, one file of one pass: the thread runs beside the requests
CleanupOldUpload ==
    /\ \E file \in GlobCsv(store) :
          /\ Expired(file, clock)
          /\ store' = Unlink(store, file)
    /\ UNCHANGED <<pipeline_vars, pointer, clock, request, beside_store>>

\* the offsets of the model: a server west of Greenwich, one on UTC, one east
UtcOffsets == {-3, 0, 3}

NoCleanup == [stop_event |-> FALSE, passes |-> 0]

\* _cleanup_old_uploads, one pass of the while loop: every *.csv is tested
\* against the `now` taken when the pass starts
CleanupPass ==
    /\ ~cleanup.stop_event
    /\ cleanup.passes < MaxPasses
    /\ store' = [n \in {m \in DOMAIN store : ~(m \in GlobCsv(store) /\ Expired(m, clock))}
                    |-> store[n]]
    /\ cleanup' = [cleanup EXCEPT !.passes = @ + 1]
    /\ UNCHANGED <<pipeline_vars, pointer, clock, request, utc_offset, std_vars, eda_vars,
                   overlap_vars, gate_vars, outlier_vars>>

\* _stop_cleanup_thread: cleanup_stop_event.set()
StopCleanupThread ==
    /\ ~cleanup.stop_event
    /\ cleanup' = [cleanup EXCEPT !.stop_event = TRUE]
    /\ UNCHANGED <<pipeline_vars, utc_offset, beside_cleanup>>

\* validate_data without a filename, in place of _ensure_latest_upload_path
resolve_latest_upload(dir, info_path) == resolve_target_file(NoName, dir, info_path)

\* _ensure_latest_upload_path: the pointer's file or 404, no other file is tried
ensure_latest_upload_path(dir, info_path) ==
    IF info_path = NoName
    THEN [target |-> NoName, error |-> "404: No uploaded files available."]
    ELSE IF info_path \notin DOMAIN dir
    THEN [target |-> NoName, error |-> "404: Latest upload file missing"]
    ELSE [target |-> info_path, error |-> ""]

\* POST /api/ingest_data with use_existing=true and no file, up to the target
\* that run_data_validation(filename=str(primary_path)) resolves; ReadTarget
\* is the rest of the request
IngestExisting ==
    /\ request.phase # "resolved"
    /\ \E found \in {ensure_latest_upload_path(store, pointer)} :
          /\ request' = [phase |-> IF found.error = "" THEN "resolved" ELSE "failed",
                         filename |-> found.target, target |-> found.target,
                         error |-> found.error]
          \* _record_latest_upload(primary_path): the same path again
          /\ pointer' = IF found.error = "" THEN found.target ELSE pointer
          /\ result' = Result("ingest_data", "", NoFile, Raised(found.error))
          /\ run' = "out of order"
    /\ UNCHANGED <<uploaded, files, lines_left, store, clock, beside_store>>

\* POST /api/validate_data, up to target = _resolve_target_file(filename)
ResolveTarget ==
    /\ request.phase # "resolved"
    /\ \E filename \in {NoName} \cup Names :
          \E found \in {resolve_target_file(filename, store, pointer)} :
              /\ request' = [phase |-> IF found.error = "" THEN "resolved" ELSE "failed",
                             filename |-> filename, target |-> found.target,
                             error |-> found.error]
              /\ result' = IF found.error = "" THEN result
                           ELSE Result("validate_data", "", NoFile, Raised(found.error))
              /\ run' = IF found.error = "" THEN run ELSE "out of order"
    /\ UNCHANGED <<uploaded, files, lines_left, store, pointer, clock, beside_store>>

\* ... and from df = pd.read_csv(target) on
ReadTarget ==
    /\ request.phase = "resolved"
    /\ \E outcome \in {IF request.target \in DOMAIN store
                       THEN run_data_validation(store[request.target])
                       ELSE Raised("FileNotFoundError: read_csv")} :
          /\ validated_file' = IF outcome.wrote THEN outcome.out ELSE validated_file
          /\ result' = Result("validate_data", "",
                              IF request.target \in DOMAIN store
                              THEN store[request.target] ELSE NoFile, outcome)
          /\ run' = IF run = "uploaded" /\ request.filename = NoName
                    THEN (IF outcome.error = "" THEN "validated" ELSE "validate failed")
                    ELSE "out of order"
          /\ request' = [request EXCEPT !.phase = "done", !.error = outcome.error]
    /\ UNCHANGED <<uploaded, continuous_file, daily_file, weekly_file, monthly_file,
                   lines_left, store, pointer, clock, beside_store>>

StoreIdle ==
    /\ store = <<>>
    /\ pointer = NoName
    /\ clock = 0
    /\ request = NoRequest

\* a server on UTC whose cleanup thread is not followed
CleanupIdle ==
    /\ utc_offset = 0
    /\ cleanup = NoCleanup

-----------------------------------------------------------------------------
(* eda_tools.py: the dataset an exploratory request reads *)

RAW_FILE == "validated_raw_data.csv"

\* granularity.lower()
RECURSIVE Lower(_)
Lower(s) ==
    IF Len(s) = 0 THEN s
    ELSE LowerChar(CharAt(s, 1)) \o Lower(SubSeq(s, 2, Len(s)))

\* file_map.get(normalized, RAW_FILE)
FileMapGet(normalized) ==
    IF normalized = "daily" THEN "daily_data.csv"
    ELSE IF normalized = "weekly" THEN "weekly_data.csv"
    ELSE IF normalized = "monthly" THEN "monthly_data.csv"
    ELSE RAW_FILE

\* path.is_file() in data/validated
IsFile(path, validated, daily, weekly, monthly) ==
    IF path = "daily_data.csv" THEN daily.exists
    ELSE IF path = "weekly_data.csv" THEN weekly.exists
    ELSE IF path = "monthly_data.csv" THEN monthly.exists
    ELSE validated.exists

\* the candidate or nothing: no second look, at RAW_FILE
resolve_dataset_path_no_fallback(granularity, validated, daily, weekly, monthly) ==
    LET candidate == FileMapGet(Lower(IF granularity = "" THEN "daily" ELSE granularity))
    IN  IF IsFile(candidate, validated, daily, weekly, monthly)
        THEN [path |-> candidate, error |-> ""]
        ELSE [path |-> "", error |-> "FileNotFoundError: no validated datasets"]

resolve_dataset_path(granularity, validated, daily, weekly, monthly) ==
    LET candidate == FileMapGet(Lower(IF granularity = "" THEN "daily" ELSE granularity))
    IN  IF IsFile(candidate, validated, daily, weekly, monthly)
        THEN [path |-> candidate, error |-> ""]
        ELSE IF IsFile(RAW_FILE, validated, daily, weekly, monthly)
        THEN [path |-> RAW_FILE, error |-> ""]
        ELSE [path |-> "", error |-> "FileNotFoundError: no validated datasets"]

Granularities == {"daily", "weekly", "monthly", "Weekly", "", "hourly"}

NoEda == [granularity |-> "none", path |-> "", error |-> ""]

\* GET /api/eda/...: path = _resolve_dataset_path(granularity)
EdaRequest ==
    /\ \E granularity \in Granularities :
          \E found \in {resolve_dataset_path(granularity, validated_file, daily_file,
                                             weekly_file, monthly_file)} :
              eda' = [granularity |-> granularity, path |-> found.path,
                      error |-> found.error]
    /\ UNCHANGED <<pipeline_vars, beside_eda>>

EdaIdle == eda = NoEda

-----------------------------------------------------------------------------
(* validate_data in two server processes at once.  df.to_csv(output_path)     *)
(* opens the file for writing, which empties it, and writes its text from the *)
(* start of the file when the handle is flushed at close; a file is its       *)
(* header line and its row lines.                                             *)

Runs == {1, 2}

OverlapUploads ==
    {File(<<"Store", "Txn_Date", "Qty">>, rows) :
        rows \in {<< <<"A", "2024-09-29 00:00:00", "1">> >>,
                  << <<"B", "2024-09-30 00:00:00", "2">> >>,
                  << <<"A", "2024-09-29 00:00:00", "1">>, <<"A", "2024-09-30 00:00:00", "2">> >>,
                  << <<"A", "not a date", "1">> >>}}

NoRun == [pc |-> "idle", upload |-> NoFile, out |-> NoFile, error |-> "",
          summary |-> NoSummary, last |-> FALSE]

\* open(output_path, "w")
Truncated == File(<<>>, <<>>)

\* write(text) at offset 0 into a file other text may have been written to since
\* it was opened: the lines past the end of the text stay
WriteAtStart(on_disk, text) ==
    File(text.header,
         text.rows \o SubSeq(on_disk.rows, Len(text.rows) + 1, Len(on_disk.rows)))

\* validate_data up to detected_granularity = ..., nothing written yet
RunValidation(p) ==
    /\ runs[p].pc = "start"
    /\ \E outcome \in {run_data_validation(runs[p].upload)} :
          runs' = [runs EXCEPT ![p] =
                      [@ EXCEPT !.pc = IF outcome.error = "" THEN "computed" ELSE "done",
                                !.out = outcome.out,
                                !.error = outcome.error,
                                !.summary = outcome.summary]]
    /\ UNCHANGED <<pipeline_vars, beside_overlap>>

\* df.to_csv(output_path, index=False): the file is opened
OpenOutput(p) ==
    /\ runs[p].pc = "computed"
    /\ validated_file' = Truncated
    /\ runs' = [runs EXCEPT ![p].pc = "open"]
    /\ UNCHANGED <<uploaded, continuous_file, daily_file, weekly_file, monthly_file,
                   result, run, lines_left, beside_overlap>>

\* ... written and closed; the summary is returned
WriteOutput(p) ==
    /\ runs[p].pc = "open"
    /\ validated_file' = WriteAtStart(validated_file, runs[p].out)
    /\ runs' = [q \in Runs |-> IF q = p THEN [runs[q] EXCEPT !.pc = "done", !.last = TRUE]
                               ELSE [runs[q] EXCEPT !.last = FALSE]]
    /\ UNCHANGED <<uploaded, continuous_file, daily_file, weekly_file, monthly_file,
                   result, run, lines_left, beside_overlap>>

OverlapIdle == runs = [p \in Runs |-> NoRun]

-----------------------------------------------------------------------------
(* roles.py and the role-gated writes of main.py: save_config,               *)
(* upload_promo_calendar, update_hierarchy_mapping.  Requests are at least a *)
(* second apart, so every write gets a file name of its own.                 *)

ROLE_LEVELS == [viewer |-> 0, editor |-> 1, approver |-> 2]
ALLOWED_ENVS == {"dev", "prod"}
REQUIRED_PROMO_COLUMNS == <<"name", "start_date", "end_date", "type">>

\* normalize_role: the role in lower case, "viewer" for none; "" stands for the
\* HTTPException of a role outside ROLE_LEVELS
normalize_role(role) ==
    LET lowered == Lower(IF role = "" THEN "viewer" ELSE role)
    IN  IF lowered \in DOMAIN ROLE_LEVELS THEN lowered ELSE ""

\* a gate that lets every known role through
ensure_any_role(role, minimum) == TRUE

\* ensure_min_role: TRUE when it returns, FALSE when it raises 403
ensure_min_role(role, minimum) == ~(ROLE_LEVELS[role] < ROLE_LEVELS[minimum])

\* validators.py validate_core_rules: the errors it lists
validate_core_rules(horizon_days, lead_time_days, granularity, promo_calendar_path) ==
    (IF horizon_days < lead_time_days THEN <<"horizon">> ELSE <<>>)
    \o (IF granularity \notin {"daily", "weekly", "monthly"} THEN <<"granularity">> ELSE <<>>)
    \o (IF promo_calendar_path = "" THEN <<"promo">> ELSE <<>>)

\* promo_validator.py rows_from_bytes: the required columns the header lacks
MissingPromoColumns(fieldnames) ==
    SelectRows(REQUIRED_PROMO_COLUMNS,
               [i \in DOMAIN REQUIRED_PROMO_COLUMNS |->
                   Count(fieldnames, REQUIRED_PROMO_COLUMNS[i]) = 0])

\* the role a request may carry; "" is no role at all
Roles == {"", "viewer", "VIEWER", "editor", "Editor", "approver", "admin"}
Envs == {"dev", "prod", "qa"}
Payloads ==
    {[horizon_days |-> h, lead_time_days |-> 7, granularity |-> "weekly",
      promo_calendar_path |-> p] : h \in {3, 30}, p \in {"", "uploads/promo.csv"}}
PromoHeaders == {<<"name", "start_date", "end_date", "type">>, <<"name", "type">>}
Mappings == {"Restaurant A > Mumbai", "Restaurant A > Pune"}

NoResponse == [op |-> "none", role |-> "", status |-> 0]

\* the status of the checks all three requests start with
RoleStatus(role) ==
    IF normalize_role(role) = "" THEN 400
    ELSE IF ~ensure_min_role(normalize_role(role), "editor") THEN 403
    ELSE 200

\* str.lower()
RECURSIVE LowerAll(_)
LowerAll(s) ==
    IF Len(s) = 0 THEN s
    ELSE LowerChar(CharAt(s, 1)) \o LowerAll(SubSeq(s, 2, Len(s)))

IsSlugChar(c) == IsDigit(c) \/ \E u \in UpperChars : Lowered[u] = c

\* re.sub(r"[^a-z0-9]+", "-", value): every run of other characters is one "-"
RECURSIVE SubDashes(_)
SubDashes(s) ==
    IF Len(s) = 0 THEN s
    ELSE IF IsSlugChar(CharAt(s, 1)) THEN CharAt(s, 1) \o SubDashes(SubSeq(s, 2, Len(s)))
    ELSE IF Len(s) > 1 /\ ~IsSlugChar(CharAt(s, 2)) THEN SubDashes(SubSeq(s, 2, Len(s)))
    ELSE "-" \o SubDashes(SubSeq(s, 2, Len(s)))

\* value.strip("-")
RECURSIVE StripDashes(_)
StripDashes(s) ==
    IF Len(s) = 0 THEN s
    ELSE IF CharAt(s, 1) = "-" THEN StripDashes(SubSeq(s, 2, Len(s)))
    ELSE IF CharAt(s, Len(s)) = "-" THEN StripDashes(SubSeq(s, 1, Len(s) - 1))
    ELSE s

\* versioning.py slugify
slugify(value) ==
    TheOne({IF slug = "" THEN "config" ELSE slug :
               slug \in {StripDashes(SubDashes(Strip(LowerAll(value))))}})

\* versioning.py next_config_path: a config file is named by its environment,
\* the slug of its name and the time of the save (the number of writes before
\* it stands for the second)
next_config_path(env, timestamp, name) ==
    [env |-> env, slug |-> slugify(name), at |-> timestamp]

\* the file name, as sorted() compares the paths of one directory
ConfigFileName(path) == "project_config_" \o path.slug \o "_" \o IntText(path.at) \o ".yaml"

NoConfig == [env |-> "", slug |-> "", at |-> -1]

\* main.py latest_config_path: sorted(env_dir.glob("project_config_*.yaml"))[-1]
latest_config_path(env_files) ==
    IF env_files = {} THEN NoConfig
    ELSE CHOOSE f \in env_files :
             \A g \in env_files \ {f} : StringLess(ConfigFileName(g), ConfigFileName(f))

\* meta.name of a payload
ConfigNames == {"Zeta Plan", "alpha"}

\* POST /api/save_config
SaveConfig ==
    /\ Len(audit) < MaxWrites
    /\ \E env \in Envs, role \in Roles, payload \in Payloads, name \in ConfigNames :
          \E code \in {IF env \notin ALLOWED_ENVS THEN 400
                       ELSE IF RoleStatus(role) # 200 THEN RoleStatus(role)
                       ELSE IF validate_core_rules(payload.horizon_days,
                                   payload.lead_time_days, payload.granularity,
                                   payload.promo_calendar_path) # <<>> THEN 400
                       ELSE IF promo_files = {} THEN 400
                       ELSE 200} :
              /\ response' = [op |-> "save_config", role |-> role, status |-> code]
              /\ config_files' = IF code = 200
                                 THEN config_files \cup {next_config_path(env, Len(audit), name)}
                                 ELSE config_files
              /\ history' = IF code = 200
                            THEN Append(history, next_config_path(env, Len(audit), name))
                            ELSE history
              /\ audit' = IF code = 200
                          THEN Append(audit, [action |-> "saved config",
                                              role |-> normalize_role(role), env |-> env])
                          ELSE audit
    /\ UNCHANGED <<promo_files, hierarchy, pipeline_vars, beside_gate>>

\* GET /api/load_config, and GET /api/download_config without a path
LoadConfig ==
    /\ \E env \in Envs, op \in {"load_config", "download_config"} :
          \E latest \in {latest_config_path({f \in config_files : f.env = env})} :
              response' = [op |-> op, role |-> "", env |-> env,
                           status |-> IF env \notin ALLOWED_ENVS THEN 400
                                      ELSE IF latest = NoConfig THEN 404 ELSE 200,
                           path |-> IF env \in ALLOWED_ENVS THEN latest ELSE NoConfig]
    /\ UNCHANGED <<config_files, history, promo_files, hierarchy, audit, pipeline_vars,
                   beside_gate>>

\* POST /api/upload_promo_calendar
UploadPromoCalendar ==
    /\ Len(audit) < MaxWrites
    /\ \E env \in Envs, role \in Roles, fieldnames \in PromoHeaders :
          \E code \in {IF RoleStatus(role) # 200 THEN RoleStatus(role)
                       ELSE IF MissingPromoColumns(fieldnames) # <<>> THEN 400
                       ELSE 200} :
              /\ response' = [op |-> "upload_promo_calendar", role |-> role, status |-> code]
              /\ promo_files' = IF code = 200
                                THEN promo_files \cup {[env |-> env, at |-> Len(audit)]}
                                ELSE promo_files
              /\ audit' = IF code = 200
                          THEN Append(audit, [action |-> "uploaded promo calendar",
                                              role |-> normalize_role(role), env |-> env])
                          ELSE audit
    /\ UNCHANGED <<config_files, history, hierarchy, pipeline_vars, beside_gate>>

\* POST /api/hierarchy_mapping
UpdateHierarchyMapping ==
    /\ Len(audit) < MaxWrites
    /\ \E role \in Roles, mapping \in Mappings :
          \E code \in {RoleStatus(role)} :
              /\ response' = [op |-> "update_hierarchy_mapping", role |-> role,
                              status |-> code]
              /\ hierarchy' = IF code = 200 THEN mapping ELSE hierarchy
              /\ audit' = IF code = 200
                          THEN Append(audit, [action |-> "updated hierarchy mapping",
                                              role |-> normalize_role(role),
                                              env |-> "global"])
                          ELSE audit
    /\ UNCHANGED <<config_files, history, promo_files, pipeline_vars, beside_gate>>

GateIdle ==
    /\ config_files = {}
    /\ history = <<>>
    /\ promo_files = {}
    /\ hierarchy = ""
    /\ audit = <<>>
    /\ response = NoResponse

-----------------------------------------------------------------------------
(* eda_tools.py outlier_info.  Quartiles are kept times 4 and the fences times *)
(* 8, which keeps the linear interpolation of np.percentile in whole numbers.  *)

\* series = df[column].dropna(), as numbers
DropNa(cells) ==
    LET present == SelectRows(cells, [i \in DOMAIN cells |-> cells[i] # NA])
    IN  [i \in DOMAIN present |-> NumValue(present[i])]

\* the values in ascending order
RECURSIVE SortedValues(_)
SortedValues(values) ==
    IF values = <<>> THEN <<>>
    ELSE LET i == CHOOSE k \in DOMAIN values : \A j \in DOMAIN values : values[k] <= values[j]
         IN  <<values[i]>> \o SortedValues(SubSeq(values, 1, i - 1)
                                           \o SubSeq(values, i + 1, Len(values)))

\* the quartile without interpolation: the value at the rank below
percentile_lower_x4(sorted, quarters) ==
    4 * sorted[(quarters * (Len(sorted) - 1)) \div 4 + 1]

\* 4 * np.percentile(series, 25 * quarters): rank quarters * (n - 1) / 4 from 0,
\* interpolated linearly between the two values around it
percentile_x4(sorted, quarters) ==
    LET rank_x4 == quarters * (Len(sorted) - 1)
        below == rank_x4 \div 4 + 1
        part == rank_x4 % 4
    IN  IF part = 0 THEN 4 * sorted[below]
        ELSE (4 - part) * sorted[below] + part * sorted[below + 1]

NoOutlierResult ==
    [done |-> FALSE, error |-> "", outliers |-> 0, bounds |-> FALSE,
     lower_x8 |-> 0, upper_x8 |-> 0]

outlier_info(df, column) ==
    LET series == DropNa(Column(df.rows, IndexOf(df.header, column)))
        fences(q1, q3) == <<2 * q1 - 3 * (q3 - q1), 2 * q3 + 3 * (q3 - q1)>>
    IN  IF Count(df.header, column) = 0
        THEN [NoOutlierResult EXCEPT !.done = TRUE, !.error = "ValueError: column missing"]
        ELSE IF series = <<>>
        THEN [NoOutlierResult EXCEPT !.done = TRUE]
        ELSE TheOne({
                 TheOne({[done |-> TRUE, error |-> "",
                          outliers |-> Cardinality({i \in DOMAIN series :
                                                      \/ 8 * series[i] < fence[1]
                                                      \/ 8 * series[i] > fence[2]}),
                          bounds |-> TRUE, lower_x8 |-> fence[1], upper_x8 |-> fence[2]] :
                         fence \in {fences(percentile_x4(sorted, 1),
                                           percentile_x4(sorted, 3))}}) :
                 sorted \in {SortedValues(series)}})

OutlierCells == {"", "1", "2", "4", "100"}

\* a sales_qty column of up to MaxValues cells, the column 1, 2, 3, 4, 5, 100,
\* and a table without sales_qty
OutlierFrames ==
    {File(<<"sales_qty">>, [i \in DOMAIN cells |-> <<cells[i]>>]) :
        cells \in UNION {[1..n -> OutlierCells] : n \in 0..MaxValues}}
    \cup {File(<<"sales_qty">>, << <<"1">>, <<"2">>, <<"3">>, <<"4">>, <<"5">>, <<"100">> >>),
          File(<<"price">>, << <<"1">> >>)}

\* eda_tools.outlier_info(df) in GET /api/eda/summary
OutlierInfo ==
    /\ ~outlier_result.done
    /\ outlier_result' = outlier_info(outlier_df, "sales_qty")
    /\ UNCHANGED <<outlier_df, pipeline_vars, beside_outlier>>

OutlierIdle ==
    /\ outlier_df = NoFile
    /\ outlier_result = NoOutlierResult

-----------------------------------------------------------------------------
(* The pipeline from an empty data directory *)

PipelineIdle ==
    /\ uploaded = NoFile
    /\ validated_file = NoFile
    /\ continuous_file = NoFile
    /\ daily_file = NoFile
    /\ weekly_file = NoFile
    /\ monthly_file = NoFile
    /\ result = NoResult
    /\ run = "none"

StdIdle ==
    /\ std_columns = <<>>
    /\ std_result = NoStdResult

Init ==
    /\ PipelineIdle
    /\ lines_left = MaxLines
    /\ StdIdle
    /\ StoreIdle
    /\ EdaIdle
    /\ OverlapIdle
    /\ GateIdle
    /\ OutlierIdle
    /\ CleanupIdle

Next ==
    \/ UploadCsv
    \/ ValidateData
    \/ BuildTimeline
    \/ AggregateData

Spec == Init /\ [][Next]_vars

-----------------------------------------------------------------------------
(* standardize_columns on its own, over every header of the vocabulary *)

\* standardized, rename_map = standardize_columns(df)
StandardizeColumns ==
    /\ ~std_result.done
    /\ \E standardized \in {standardize_columns(std_columns)} :
           std_result' = [done |-> TRUE, columns |-> standardized.columns,
                          rename_map |-> standardized.rename_map]
    /\ UNCHANGED <<std_columns, pipeline_vars, beside_std>>

InitStd ==
    /\ PipelineIdle
    /\ lines_left = 0
    /\ std_columns \in StdHeaders
    /\ std_result = NoStdResult
    /\ StoreIdle
    /\ EdaIdle
    /\ OverlapIdle
    /\ GateIdle
    /\ OutlierIdle
    /\ CleanupIdle

NextStd == StandardizeColumns

SpecStd == InitStd /\ [][NextStd]_vars

-----------------------------------------------------------------------------
(* validate_data alone, on uploads long enough to have several date gaps *)

\* two stores; dates one, six, seven and more days apart, one of them at noon
CadenceRows ==
    {<<"A", d, "1">> : d \in {"2024-09-01 00:00:00", "2024-09-16 00:00:00",
                              "2024-09-23 00:00:00", "2024-09-29 12:00:00",
                              "2024-09-30 00:00:00", "2024-10-01 00:00:00"}}
    \cup {<<"B", d, "1">> : d \in {"2024-09-23 00:00:00", "2024-09-30 00:00:00"}}

CadenceFiles ==
    {File(<<"Store", "Txn_Date", "Qty">>, rows) :
        rows \in UNION {[1..n -> CadenceRows] : n \in 1..MaxCadenceRows}}

InitCadence ==
    /\ uploaded \in CadenceFiles
    /\ validated_file = NoFile
    /\ continuous_file = NoFile
    /\ daily_file = NoFile
    /\ weekly_file = NoFile
    /\ monthly_file = NoFile
    /\ result = Result("upload_csv", "", NoFile, Raised(""))
    /\ run = "uploaded"
    /\ lines_left = 0
    /\ StdIdle
    /\ StoreIdle
    /\ EdaIdle
    /\ OverlapIdle
    /\ GateIdle
    /\ OutlierIdle
    /\ CleanupIdle

NextCadence == ValidateData

SpecCadence == InitCadence /\ [][NextCadence]_vars

-----------------------------------------------------------------------------
(* The uploads directory under uploads, validations and the cleanup thread *)

InitUploads ==
    /\ PipelineIdle
    /\ lines_left = 0
    /\ StdIdle
    /\ store \in {<<>>} \cup {WriteBytes(<<>>, Name(0, ".csv"), content) : content \in StoreContents}
    /\ pointer = NoName
    /\ clock = 0
    /\ request = NoRequest
    /\ EdaIdle
    /\ OverlapIdle
    /\ GateIdle
    /\ OutlierIdle
    /\ CleanupIdle

NextUploads ==
    \/ StoreUpload
    \/ Tick
    \/ CleanupOldUpload
    \/ ResolveTarget
    \/ ReadTarget

SpecUploads == InitUploads /\ [][NextUploads]_vars

-----------------------------------------------------------------------------
(* The uploads directory under the cleanup thread, on servers in any time zone *)

InitRetention ==
    /\ PipelineIdle
    /\ lines_left = 0
    /\ StdIdle
    /\ store \in {<<>>} \cup {WriteBytes(<<>>, Name(0, suffix), content) :
                                 suffix \in Suffixes, content \in StoreContents}
    /\ pointer = NoName
    /\ clock = 0
    /\ request = NoRequest
    /\ EdaIdle
    /\ OverlapIdle
    /\ GateIdle
    /\ OutlierIdle
    /\ utc_offset \in UtcOffsets
    /\ cleanup = NoCleanup

NextRetention ==
    \/ StoreUpload
    \/ Tick
    \/ CleanupPass
    \/ StopCleanupThread

SpecRetention == InitRetention /\ [][NextRetention]_vars

-----------------------------------------------------------------------------
(* Ingest requests that reuse the latest upload, beside uploads and cleanup *)

NextIngest ==
    \/ StoreUpload
    \/ Tick
    \/ CleanupOldUpload
    \/ IngestExisting
    \/ ReadTarget

SpecIngest == InitUploads /\ [][NextIngest]_vars

-----------------------------------------------------------------------------
(* The pipeline with exploratory requests between its stages *)

InitEda ==
    /\ PipelineIdle
    /\ lines_left = MaxEdaLines
    /\ StdIdle
    /\ StoreIdle
    /\ EdaIdle
    /\ OverlapIdle
    /\ GateIdle
    /\ OutlierIdle
    /\ CleanupIdle

NextEda ==
    \/ UploadCsv
    \/ ValidateData
    \/ BuildTimeline
    \/ AggregateData
    \/ EdaRequest

SpecEda == InitEda /\ [][NextEda]_vars

-----------------------------------------------------------------------------
(* The two later stages on any table, over the outputs of an earlier run *)

\* an upload whose store numbers sort differently as text and as numbers
NumberedStores ==
    File(<<"Store", "Txn_Date", "Qty">>,
         << <<"9", "2024-09-29 00:00:00", "1">>, <<"10", "2024-09-30 00:00:00", "1">> >>)

StageInputs ==
    {NoFile,
     validate_data(NumberedStores).out,
     File(<<"series_id", "date", "sales_qty">>, <<>>),
     File(<<"series_id", "sales_qty">>, << <<"A", "1">> >>),
     File(<<"date", "sales_qty">>, << <<"2024-09-29", "1">> >>),
     File(<<"series_id", "date", "sales_qty">>, << <<"A", "not a date", "1">> >>),
     File(<<"series_id", "date">>, << <<"A", "2024-09-29">> >>),
     File(<<"series_id", "date", "sales_qty">>,
          << <<"A", "2024-09-29", "1">>, <<"B", "not a date", "1">> >>),
     File(<<"series_id", "date", "sales_qty">>, << <<"", "2024-09-29", "1">> >>),
     File(<<"series_id", "date", "sales_qty">>, << <<"A", "2024-09-29", "1">> >>),
     File(<<"series_id", "date", "sales_qty">>,
          << <<"A", "2024-09-29", "1">>, <<"A", "2024-10-01", "2">> >>),
     File(<<"series_id", "date", "sales_qty", "price">>,
          << <<"A", "2024-09-30", "1", "4">>, <<"A", "2024-10-01", "2", "2">>,
             <<"B", "2024-10-01", "1", "">> >>)}

\* what an earlier run on one row of series Z left behind
EarlierContinuous == File(<<"series_id", "date", "sales_qty">>, << <<"Z", "2024-09-30", "1">> >>)
EarlierDaily ==
    File(<<"series_id", "date", "sales_qty", "week", "month">>,
         << <<"Z", "2024-09-30", "1", "2024-09-30", "2024-09-01">> >>)
EarlierWeekly == File(<<"series_id", "date", "sales_qty">>, << <<"Z", "2024-09-30", "1">> >>)
EarlierMonthly == File(<<"series_id", "date", "sales_qty">>, << <<"Z", "2024-09-01", "1">> >>)

InitStages ==
    /\ uploaded = NoFile
    /\ validated_file \in StageInputs
    /\ continuous_file \in StageInputs \cup {EarlierContinuous}
    /\ daily_file = EarlierDaily
    /\ weekly_file = EarlierWeekly
    /\ monthly_file = EarlierMonthly
    /\ result = NoResult
    /\ run = "none"
    /\ lines_left = 0
    /\ StdIdle
    /\ StoreIdle
    /\ EdaIdle
    /\ OverlapIdle
    /\ GateIdle
    /\ OutlierIdle
    /\ CleanupIdle

NextStages ==
    \/ BuildTimeline
    \/ AggregateData

SpecStages == InitStages /\ [][NextStages]_vars

-----------------------------------------------------------------------------
(* A new upload after an earlier run went through every stage *)

EarlierValidated == File(<<"series_id", "date", "sales_qty">>, << <<"Z", "2024-09-30", "1">> >>)

InitRerun ==
    /\ uploaded \in OverlapUploads
    /\ validated_file = EarlierValidated
    /\ continuous_file = EarlierContinuous
    /\ daily_file = EarlierDaily
    /\ weekly_file = EarlierWeekly
    /\ monthly_file = EarlierMonthly
    /\ result = NoResult
    /\ run = "uploaded"
    /\ lines_left = 0
    /\ StdIdle
    /\ StoreIdle
    /\ EdaIdle
    /\ OverlapIdle
    /\ GateIdle
    /\ OutlierIdle
    /\ CleanupIdle

NextRerun ==
    \/ ValidateData
    \/ BuildTimeline
    \/ AggregateData
    \/ EdaRequest

SpecRerun == InitRerun /\ [][NextRerun]_vars

-----------------------------------------------------------------------------
(* Two validate_data runs, each on its own upload, in any interleaving *)

InitOverlap ==
    /\ PipelineIdle
    /\ lines_left = 0
    /\ StdIdle
    /\ StoreIdle
    /\ EdaIdle
    /\ runs \in {[p \in Runs |-> [NoRun EXCEPT !.pc = "start", !.upload = u[p]]] :
                    u \in [Runs -> OverlapUploads]}
    /\ GateIdle
    /\ OutlierIdle
    /\ CleanupIdle

NextOverlap ==
    \E p \in Runs :
        \/ RunValidation(p)
        \/ OpenOutput(p)
        \/ WriteOutput(p)

SpecOverlap == InitOverlap /\ [][NextOverlap]_vars

-----------------------------------------------------------------------------
(* The configuration store under requests of every role *)

InitGate ==
    /\ PipelineIdle
    /\ lines_left = 0
    /\ StdIdle
    /\ StoreIdle
    /\ EdaIdle
    /\ OverlapIdle
    /\ GateIdle
    /\ OutlierIdle
    /\ CleanupIdle

NextGate ==
    \/ SaveConfig
    \/ UploadPromoCalendar
    \/ UpdateHierarchyMapping

SpecGate == InitGate /\ [][NextGate]_vars

-----------------------------------------------------------------------------
(* Saving configs under several names and reading the latest one back *)

NextConfigs ==
    \/ UploadPromoCalendar
    \/ SaveConfig
    \/ LoadConfig

SpecConfigs == InitGate /\ [][NextConfigs]_vars

-----------------------------------------------------------------------------
(* outlier_info on its own, over every column of the vocabulary *)

InitOutlier ==
    /\ PipelineIdle
    /\ lines_left = 0
    /\ StdIdle
    /\ StoreIdle
    /\ EdaIdle
    /\ OverlapIdle
    /\ GateIdle
    /\ outlier_df \in OutlierFrames
    /\ outlier_result = NoOutlierResult
    /\ CleanupIdle

NextOutlier == OutlierInfo

SpecOutlier == InitOutlier /\ [][NextOutlier]_vars

-----------------------------------------------------------------------------
(* Claims *)

\* reading a persisted table by column name
CellOf(file, r, name) == file.rows[r][IndexOf(file.header, name)]
SeriesOf(file, r) == CellOf(file, r, "series_id")
StampOf(file, r) == Timestamp(CellOf(file, r, "date"))
QtyOf(file, r) == IF CellOf(file, r, "sales_qty") = NA THEN 0
                  ELSE NumValue(CellOf(file, r, "sales_qty"))
SeriesIn(file) == {SeriesOf(file, r) : r \in DOMAIN file.rows}
RowsOfSeries(file, s) == {r \in DOMAIN file.rows : SeriesOf(file, r) = s}
RECURSIVE TotalQty(_, _)
TotalQty(file, rs) ==
    IF rs = {} THEN 0
    ELSE LET r == CHOOSE x \in rs : TRUE
         IN  QtyOf(file, r) + TotalQty(file, rs \ {r})

\* reading an input of validate_data: the columns it will take for the keys
\* the columns of an input file as validate_data names them
InColumns(file) ==
    standardize_columns([i \in DOMAIN file.header |-> Strip(file.header[i])]).columns
InHas(file, name) == Count(InColumns(file), name) > 0
InCell(file, r, name) == file.rows[r][IndexOf(InColumns(file), name)]
InSeries(file, r) ==
    IF ~InHas(file, "series_id") THEN SINGLE_SERIES
    ELSE IF Strip(InCell(file, r, "series_id")) = "" THEN SINGLE_SERIES
    ELSE Strip(InCell(file, r, "series_id"))
InParses(file, r) ==
    IsTimestampText(InCell(file, r, "date")) /\ IsNumText(InCell(file, r, "sales_qty"))
InStamp(file, r) == Timestamp(InCell(file, r, "date"))
InQty(file, r) == NumValue(InCell(file, r, "sales_qty"))
Survivors(file) == {r \in DOMAIN file.rows : InParses(file, r)}
SameInKey(file, r, q) ==
    InSeries(file, r) = InSeries(file, q) /\ InStamp(file, r) = InStamp(file, q)
\* the survivors with no earlier survivor of the same (series_id, date)
Firsts(file) ==
    {r \in Survivors(file) : \A q \in Survivors(file) : q < r => ~SameInKey(file, r, q)}

ValidateReturned == result.op = "validate_data" /\ result.error = ""

C3_RevalidationIdempotent ==
    (/\ result.op = "validate_data"
     /\ result.target = "validated"
     /\ result.input.exists) =>
        /\ result.error = ""
        /\ result.summary.duplicates_removed = 0
        /\ validated_file.rows = result.input.rows

\* C4: when the standardized table has no date column, or no sales_qty column,
\* validate_data raises the missing-column error and the validated file keeps
\* the content it had.
C4_MissingColumnWritesNothing ==
    [][(/\ result'.op = "validate_data"
        /\ result'.input.exists
        /\ Len(result'.input.rows) > 0
        /\ (~InHas(result'.input, "date") \/ ~InHas(result'.input, "sales_qty")))
       => (/\ result'.error \in {"ValueError: no date column",
                                 "ValueError: no sales quantity column"}
           /\ (~InHas(result'.input, "date") => result'.error = "ValueError: no date column")
           /\ validated_file' = validated_file)]_vars

\* the upload has no date column and a validated file was there before
C4_Witness ==
    /\ result.op = "validate_data"
    /\ result.error = "ValueError: no date column"
    /\ validated_file.exists
    /\ Len(validated_file.rows) > 0

\* C5: validate_data raises when its input has no rows, and when no row is left
\* after parsing; a validated file is never empty.
C5_NeverEmptyValidated ==
    /\ (/\ result.op = "validate_data"
        /\ result.input.exists
        /\ InHas(result.input, "date")
        /\ InHas(result.input, "sales_qty")
        /\ Survivors(result.input) = {}) => result.error # ""
    /\ validated_file.exists => Len(validated_file.rows) > 0

TimelineReturned == result.op = "build_timeline" /\ result.error = ""

MinDay(file, s) ==
    DayOf(CHOOSE t \in {StampOf(file, r) : r \in RowsOfSeries(file, s)} :
              \A r \in RowsOfSeries(file, s) : t <= StampOf(file, r))
MaxDay(file, s) ==
    DayOf(CHOOSE t \in {StampOf(file, r) : r \in RowsOfSeries(file, s)} :
              \A r \in RowsOfSeries(file, s) : t >= StampOf(file, r))
\* the calendar days of the series' rows, in file order
DaysOfSeries(file, s) ==
    LET rs == SetToSortedSeq(RowsOfSeries(file, s))
    IN  [k \in DOMAIN rs |-> DayOf(StampOf(file, rs[k]))]
\* days in the series' range on which the input has no row of the series
GapDays(file, s) ==
    {d \in MinDay(file, s)..MaxDay(file, s) :
        \A r \in RowsOfSeries(file, s) : DayOf(StampOf(file, r)) # d}

\* C6: for every series of the validated input the continuous file has exactly
\* one row per calendar day from the series' first to its last date, ascending.
C6_OneRowPerCalendarDay ==
    TimelineReturned =>
        \A s \in SeriesIn(result.input) :
            DaysOfSeries(continuous_file, s)
                = [k \in 1..(MaxDay(result.input, s) - MinDay(result.input, s) + 1) |->
                      MinDay(result.input, s) + k - 1]

RECURSIVE SumGaps(_, _)
SumGaps(file, ss) ==
    IF ss = {} THEN 0
    ELSE LET s == CHOOSE x \in ss : TRUE
         IN  Cardinality(GapDays(file, s)) + SumGaps(file, ss \ {s})

\* C7: missing_dates_filled is the number of calendar days, inside some series'
\* date range, for which the input has no row of that series.
C7_FilledCountsGapDays ==
    TimelineReturned =>
        result.summary.missing_dates_filled = SumGaps(result.input, SeriesIn(result.input))

AggregateReturned == result.op = "aggregate_data" /\ result.error = ""

\* C8: for every series the weekly rows, and the monthly rows, add up to the
\* sum of the sales_qty present in the series' daily input rows.
C8_TotalsConserved ==
    AggregateReturned =>
        \A s \in SeriesIn(result.input) :
            /\ TotalQty(weekly_file, RowsOfSeries(weekly_file, s))
                   = TotalQty(result.input, RowsOfSeries(result.input, s))
            /\ TotalQty(monthly_file, RowsOfSeries(monthly_file, s))
                   = TotalQty(result.input, RowsOfSeries(result.input, s))

\* a series spread over two weeks and two months, with gap rows, has been summed
C8_Witness ==
    /\ AggregateReturned
    /\ \E s \in SeriesIn(result.input) :
          /\ Cardinality(RowsOfSeries(weekly_file, s)) = 2
          /\ Cardinality(RowsOfSeries(monthly_file, s)) = 2
          /\ \E r \in RowsOfSeries(result.input, s) : CellOf(result.input, r, "sales_qty") = NA
          /\ \A r \in RowsOfSeries(weekly_file, s) : QtyOf(weekly_file, r) > 0

AllRows(file) == DOMAIN file.rows

\* C9: an upload with the columns Store, Txn_Date, Qty (and a row that parses)
\* goes through validate_data, build_timeline and aggregate_data in that order
\* without a failure, its columns become series_id, date, sales_qty, and the
\* weekly rows add up to the total sales_qty of the validated file.
C9_PipelineKeepsTotal ==
    (/\ uploaded.exists
     /\ uploaded.header = <<"Store", "Txn_Date", "Qty">>
     /\ Survivors(uploaded) # {}) =>
        /\ run \notin {"validate failed", "timeline failed", "aggregate failed"}
        /\ run \in {"validated", "timeline", "aggregated"}
               => validated_file.header = <<"series_id", "date", "sales_qty">>
        /\ run = "aggregated"
               => TotalQty(weekly_file, AllRows(weekly_file))
                      = TotalQty(validated_file, AllRows(validated_file))

\* C10: standardize_columns returns as many columns as it was given, and no
\* canonical name is the rename target of two original columns in the mapping.
C10_ColumnsKeptSlotsOnce ==
    std_result.done =>
        /\ Len(std_result.columns) = Len(std_columns)
        /\ \A i, j \in DOMAIN std_result.rename_map :
               std_result.rename_map[i][2] = std_result.rename_map[j][2] => i = j

\* two different columns match the same canonical name; one of them got it
C10_Witness ==
    /\ std_result.done
    /\ \E i, j \in DOMAIN std_columns :
           /\ i < j
           /\ std_columns[i] # std_columns[j]
           /\ match_canonical(std_columns[i]) = "date"
           /\ match_canonical(std_columns[j]) = "date"
    /\ Cardinality({k \in DOMAIN std_result.rename_map :
                        std_result.rename_map[k][2] = "date"}) = 1

\* the calendar days on which a table has a row
CalendarDays(file) == {DayOf(StampOf(file, r)) : r \in DOMAIN file.rows}
\* gaps in days between consecutive days of a set
DayGaps(days) ==
    LET sorted == SetToSortedSeq(days)
    IN  [i \in 1..(Len(sorted) - 1) |-> sorted[i + 1] - sorted[i]]
\* the most frequent gap, the smallest of them on a tie
ModalGap(gaps) ==
    CHOOSE g \in Range(gaps) :
        \A h \in Range(gaps) :
            Count(gaps, h) < Count(gaps, g) \/ (Count(gaps, h) = Count(gaps, g) /\ g <= h)
Cadence(days) ==
    IF Cardinality(days) < 2 THEN "daily"
    ELSE IF ModalGap(DayGaps(days)) <= 1 THEN "daily"
    ELSE IF ModalGap(DayGaps(days)) <= 7 THEN "weekly"
    ELSE "monthly"

\* C11: the granularity validate_data reports is daily, weekly or monthly as the
\* most frequent gap (the smallest on a tie) between consecutive distinct dates
\* of the whole validated table is at most 1 day, at most 7 days, or more; daily
\* for a single date.
C11_CadenceFromModalGap ==
    (ValidateReturned /\ result.target = "latest") =>
        result.summary.detected_granularity = Cadence(CalendarDays(validated_file))


\* the validate_data request has just resolved its input, or failed to
ResolveStep ==
    /\ request' # request
    /\ request'.phase \in {"resolved", "failed"}

\* C12: with no filename, validate_data reads the file the latest-upload pointer
\* names if that file exists; with the pointer missing or its file gone it reads
\* the most recently modified .csv of the uploads directory; it fails for want
\* of an upload only when the directory holds no .csv.  With a filename that
\* names no stored file it fails and reads nothing else.
C12_ResolvesPointerThenNewestCsv ==
    [][ResolveStep =>
          IF request'.filename = NoName
          THEN IF pointer # NoName /\ pointer \in DOMAIN store
               THEN request'.phase = "resolved" /\ request'.target = pointer
               ELSE IF \E n \in DOMAIN store : n.suffix = ".csv"
               THEN /\ request'.phase = "resolved"
                    /\ request'.target \in DOMAIN store
                    /\ request'.target.suffix = ".csv"
                    /\ \A n \in DOMAIN store :
                          n.suffix = ".csv" => n.stamp <= request'.target.stamp
               ELSE /\ request'.phase = "failed"
                    /\ request'.error = "FileNotFoundError: no uploads"
          ELSE IF request'.filename \in DOMAIN store
               THEN request'.phase = "resolved" /\ request'.target = request'.filename
               ELSE /\ request'.phase = "failed"
                    /\ request'.target = NoName
                    /\ request'.error = "FileNotFoundError: not in uploads"]_vars

\* the pointer's file was swept away, an older .csv is still there and is read
C12_Witness_StalePointer ==
    /\ request.phase = "done"
    /\ request.filename = NoName
    /\ pointer # NoName
    /\ pointer \notin DOMAIN store
    /\ request.target \in DOMAIN store
    /\ request.target.stamp < pointer.stamp
    /\ result.op = "validate_data"
    /\ result.error = ""


\* an exploratory request has just resolved its dataset, or failed to
EdaStep == eda' # eda

\* validate_data has just returned a summary
ValidateSucceeds ==
    /\ result' # result
    /\ result'.op = "validate_data"
    /\ result'.error = ""

GrainFile(granularity) ==
    IF granularity \in {"daily", ""} THEN daily_file
    ELSE IF granularity \in {"weekly", "Weekly"} THEN weekly_file
    ELSE IF granularity = "monthly" THEN monthly_file
    ELSE validated_file

GrainPath(granularity) ==
    IF granularity \in {"daily", ""} THEN "daily_data.csv"
    ELSE IF granularity \in {"weekly", "Weekly"} THEN "weekly_data.csv"
    ELSE IF granularity = "monthly" THEN "monthly_data.csv"
    ELSE "validated_raw_data.csv"

\* C13: an exploratory request reads its grain's file when that file exists,
\* otherwise the validated file, and fails with the dataset-not-found error only
\* when neither exists; a successful validate_data leaves the validated file in
\* place and no later request removes it, so from then on every exploratory
\* request resolves to a file, whichever later stages have run.
C13_GrainFileElseValidated ==
    [][/\ ValidateSucceeds => validated_file'.exists
       /\ validated_file.exists => validated_file'.exists
       /\ EdaStep =>
            /\ IF GrainFile(eda'.granularity).exists
               THEN eda'.path = GrainPath(eda'.granularity) /\ eda'.error = ""
               ELSE IF validated_file.exists
               THEN eda'.path = "validated_raw_data.csv" /\ eda'.error = ""
               ELSE eda'.path = "" /\ eda'.error = "FileNotFoundError: no validated datasets"
            /\ validated_file.exists => eda'.error = ""]_vars

\* validated, timeline not aggregated: a weekly request reads the validated file
C13_Witness_FallsBack ==
    /\ eda.granularity = "weekly"
    /\ eda.path = "validated_raw_data.csv"
    /\ validated_file.exists
    /\ continuous_file.exists
    /\ ~weekly_file.exists


TimelineRaises ==
    /\ result' # result
    /\ result'.op = "build_timeline"
    /\ result'.error # ""

AggregateRaises ==
    /\ result' # result
    /\ result'.op = "aggregate_data"
    /\ result'.error # ""

\* C14: a build_timeline run that raises leaves the continuous file as it was,
\* and an aggregate_data run that raises leaves the daily, weekly and monthly
\* files as they were; neither writes anything before it raises.
C14_RaisesBeforeAnyWrite ==
    [][/\ TimelineRaises => UNCHANGED files
       /\ AggregateRaises => UNCHANGED files]_vars

\* aggregate_data raised on a continuous table with rows but no sales_qty, late
\* in its computation, and the three files of the earlier run are all still there
C14_Witness_RaisedOverOutputs ==
    /\ result.op = "aggregate_data"
    /\ result.error = "KeyError"
    /\ continuous_file.rows # <<>>
    /\ daily_file = EarlierDaily
    /\ weekly_file = EarlierWeekly
    /\ monthly_file = EarlierMonthly


BothWrote == \A p \in Runs : runs[p].pc = "done" /\ runs[p].error = ""

\* C15: once two overlapping validate_data runs on different uploads have both
\* finished, the validated file is exactly the complete output of the run that
\* wrote last, never a mixture of the two outputs.
C15_LastWriterWholeFile ==
    (BothWrote /\ runs[1].upload # runs[2].upload) =>
        \E p \in Runs : runs[p].last /\ validated_file = runs[p].out


\* C16: the daily file aggregate_data writes is the continuous table it was
\* given, verbatim: the same columns and the same rows.
C16_DailyFileVerbatim ==
    AggregateReturned =>
        /\ daily_file.header = result.input.header
        /\ daily_file.rows = result.input.rows


\* 2024-09-02, day 1, is a Monday: the Monday on or before a day
MondayOf(d) == CHOOSE m \in (d - 6)..d : m % 7 = 1
\* September has 30 days: day 30 is 2024-10-01
FirstOfMonth(d) == IF d <= 29 THEN 0 ELSE 30

\* the source rows that fall in a period: a series id and a parseable date
Dated(file) ==
    {r \in DOMAIN file.rows :
        SeriesOf(file, r) # NA /\ IsTimestampText(CellOf(file, r, "date"))}
PricesIn(file, rs) == {r \in rs : CellOf(file, r, "price") # NA}
RECURSIVE TotalPrice(_, _)
TotalPrice(file, rs) ==
    IF rs = {} THEN 0
    ELSE LET r == CHOOSE x \in rs : TRUE
         IN  NumValue(CellOf(file, r, "price")) + TotalPrice(file, rs \ {r})

\* `out` has one row for each (series, period start) of `source`, dated with
\* the period start, holding the sum of sales_qty and the mean of price
OneRowPerPeriod(out, source, Start(_)) ==
    LET start(r) == Start(DayOf(StampOf(source, r)))
        keys == {<<SeriesOf(source, r), start(r)>> : r \in Dated(source)}
        members(k) == {r \in Dated(source) : SeriesOf(source, r) = k[1] /\ start(r) = k[2]}
    IN  /\ Len(out.rows) = Cardinality(keys)
        /\ \A k \in keys :
              \E o \in DOMAIN out.rows :
                  /\ SeriesOf(out, o) = k[1]
                  /\ CellOf(out, o, "date") = TextOfDay(k[2])
                  /\ QtyOf(out, o) = TotalQty(source, members(k))
                  /\ Count(source.header, "price") > 0 =>
                        IF PricesIn(source, members(k)) = {}
                        THEN CellOf(out, o, "price") = NA
                        ELSE NumValue(CellOf(out, o, "price"))
                                 * Cardinality(PricesIn(source, members(k)))
                             = TotalPrice(source, PricesIn(source, members(k)))

\* C17: the weekly and the monthly file aggregate_data writes hold exactly one
\* row for each (series_id, period start) with a source row, dated with the
\* Monday of the week, respectively the first day of the month, of the source
\* dates, with the sum of sales_qty and, when there is a price column, the mean
\* of price over the period.
C17_OneRowPerSeriesAndPeriod ==
    AggregateReturned =>
        /\ OneRowPerPeriod(weekly_file, result.input, MondayOf)
        /\ OneRowPerPeriod(monthly_file, result.input, FirstOfMonth)

\* three priced rows of two series in one week and two months have been
\* aggregated: series A's week holds two prices, series B's none
C17_Witness_TwoPricesInAWeek ==
    /\ AggregateReturned
    /\ Count(result.input.header, "price") > 0
    /\ Len(weekly_file.rows) = 2
    /\ Len(monthly_file.rows) = 3
    /\ \E o \in DOMAIN weekly_file.rows :
          CellOf(weekly_file, o, "price") = "3.0" /\ QtyOf(weekly_file, o) = 3
    /\ \E o \in DOMAIN weekly_file.rows : CellOf(weekly_file, o, "price") = NA


\* what the three gated requests write
gated == <<config_files, history, promo_files, hierarchy, audit>>

MayWrite(role) ==
    role \in {"editor", "Editor", "approver"}

\* C18: a save_config, upload_promo_calendar or update_hierarchy_mapping request
\* whose role is viewer, absent or unknown is rejected and leaves the config
\* files, the history, the promo calendars, the hierarchy mapping and the audit
\* log as they were; any change to one of them comes from a request with the
\* role editor or approver.
C18_OnlyEditorsWrite ==
    [][/\ gated' # gated => MayWrite(response'.role) /\ response'.status = 200
       /\ (response'.op # "none" /\ ~MayWrite(response'.role)) =>
              response'.status \in {400, 403}]_vars

\* after an editor stored a promo calendar and a config, a viewer's
\* save_config was rejected and the stores are as the editor left them
C18_Witness_ViewerRejected ==
    /\ response = [op |-> "save_config", role |-> "viewer", status |-> 403]
    /\ Cardinality(config_files) = 1
    /\ Len(history) = 1
    /\ Len(audit) = 2
    /\ \A i \in DOMAIN audit : audit[i].role \in {"editor", "approver"}


\* the non-null values of the column outlier_info was given
OutlierValues == DropNa(Column(outlier_df.rows, 1))
Distinct(values) == {values[i] : i \in DOMAIN values}

\* 4 times the quartile of the values: the value at rank quarters * (n - 1) / 4
\* of the sorted values, counted from 0, or between two values in proportion
Quartile_x4(values, quarters) ==
    LET sorted == SortedValues(values)
        at == {kp \in (DOMAIN sorted) \X (0..3) :
                  4 * (kp[1] - 1) + kp[2] = quarters * (Len(sorted) - 1)}
    IN  {IF kp[2] = 0 THEN 4 * sorted[kp[1]]
         ELSE 4 * sorted[kp[1]] + kp[2] * (sorted[kp[1] + 1] - sorted[kp[1]]) : kp \in at}

\* C19: on the non-null values of the column, outlier_info returns the fences
\* Q1 - 1.5 IQR and Q3 + 1.5 IQR and counts the values strictly outside them;
\* 1, 2, 3, 4, 5, 100 has the one outlier 100; a column without values gives 0
\* outliers and no bounds; a column with fewer than 4 distinct values, one
\* value or all values equal, gives a result and no failure.
C19_TukeyFences ==
    (outlier_result.done /\ Count(outlier_df.header, "sales_qty") > 0) =>
        /\ outlier_result.error = ""
        /\ OutlierValues = <<>> =>
               outlier_result.outliers = 0 /\ ~outlier_result.bounds
        /\ OutlierValues # <<>> =>
               /\ outlier_result.bounds
               /\ \E q1 \in Quartile_x4(OutlierValues, 1),
                     q3 \in Quartile_x4(OutlierValues, 3) :
                      /\ outlier_result.lower_x8 = 2 * q1 - 3 * (q3 - q1)
                      /\ outlier_result.upper_x8 = 2 * q3 + 3 * (q3 - q1)
               /\ outlier_result.outliers =
                      Cardinality({i \in DOMAIN OutlierValues :
                                      \/ 8 * OutlierValues[i] < outlier_result.lower_x8
                                      \/ 8 * OutlierValues[i] > outlier_result.upper_x8})
        /\ OutlierValues = <<1, 2, 3, 4, 5, 100>> =>
               /\ outlier_result.outliers = 1
               /\ outlier_result.lower_x8 = -12
               /\ outlier_result.upper_x8 = 68
               /\ 8 * 100 > outlier_result.upper_x8

\* the column 1, 2, 3, 4, 5, 100 has been analysed
C19_Witness_SpecExample ==
    /\ outlier_result.done
    /\ OutlierValues = <<1, 2, 3, 4, 5, 100>>
    /\ outlier_result.outliers = 1


\* the canonical names a normalized column name equals, by name or by synonym
ExactMatches(normalized) ==
    {i \in DOMAIN CANONICAL_COLUMNS :
        \/ normalized = CANONICAL_COLUMNS[i].canonical
        \/ normalized \in Range(CANONICAL_COLUMNS[i].synonyms)}
\* the canonical names with a synonym that is part of the normalized column name
SubstringMatches(normalized) ==
    {i \in DOMAIN CANONICAL_COLUMNS :
        \E synonym \in Range(CANONICAL_COLUMNS[i].synonyms) : Contains(normalized, synonym)}
FirstListed(S) == CANONICAL_COLUMNS[CHOOSE i \in S : \A j \in S : i <= j].canonical

\* exact matches first, over the whole vocabulary; then substrings; else none
TwoPassMatch(column) ==
    LET normalized == normalize(column)
    IN  IF ExactMatches(normalized) # {} THEN FirstListed(ExactMatches(normalized))
        ELSE IF SubstringMatches(normalized) # {}
        THEN FirstListed(SubstringMatches(normalized))
        ELSE NoMatch

\* C20: a column whose normalized name equals a canonical name or a synonym gets
\* that canonical name, also when a synonym of a canonical name listed earlier
\* is part of it (sales_value stays sales_value, it does not become sales_qty);
\* a column with no exact match gets the first canonical name one of whose
\* synonyms is part of its normalized name; a column matching neither way
\* keeps its name.  (Stated for columns whose canonical name no other column
\* of the table competes for.)
C20_ExactBeforeSubstring ==
    std_result.done =>
        \A i \in DOMAIN std_columns :
            IF TwoPassMatch(std_columns[i]) = NoMatch
            THEN std_result.columns[i] = std_columns[i]
            ELSE (\A j \in DOMAIN std_columns :
                      j # i => TwoPassMatch(std_columns[j]) # TwoPassMatch(std_columns[i]))
                 => /\ std_result.columns[i] = TwoPassMatch(std_columns[i])
                    /\ \E k \in DOMAIN std_result.rename_map :
                          std_result.rename_map[k]
                              = <<std_columns[i], TwoPassMatch(std_columns[i])>>

\* sales_value, Holiday and notes: an exact match that a substring of an earlier
\* name would have taken, a substring match, and no match
C20_Witness_SalesValue ==
    /\ std_result.done
    /\ std_columns = <<"sales_value", "Holiday", "notes">>
    /\ std_result.columns = <<"sales_value", "date", "notes">>


\* the first canonical name, exact matches before substring matches, that the
\* column matches and that is not among the claimed ones
FirstUnclaimed(column, claimed) ==
    LET normalized == normalize(column)
        free(S) == {i \in S : CANONICAL_COLUMNS[i].canonical \notin claimed}
    IN  IF free(ExactMatches(normalized)) # {}
        THEN FirstListed(free(ExactMatches(normalized)))
        ELSE IF free(SubstringMatches(normalized)) # {}
        THEN FirstListed(free(SubstringMatches(normalized)))
        ELSE NoMatch

\* the names after each column, in order, took the first unclaimed name it matches
RECURSIVE ClaimInOrder(_, _, _)
ClaimInOrder(columns, i, claimed) ==
    IF i > Len(columns) THEN <<>>
    ELSE LET target == FirstUnclaimed(columns[i], claimed)
         IN  IF target = NoMatch
             THEN <<columns[i]>> \o ClaimInOrder(columns, i + 1, claimed)
             ELSE <<target>> \o ClaimInOrder(columns, i + 1, claimed \cup {target})

DistinctNames(columns) ==
    \A i, j \in DOMAIN columns : columns[i] = columns[j] => i = j

\* C21: taking the columns in their original order, each column is renamed to
\* the first canonical name it matches that no earlier column has claimed, and
\* keeps its own name only when every canonical name it matches is claimed
\* (or it matches none).  Stated for tables whose column names are distinct.
C21_FirstUnclaimedTarget ==
    (std_result.done /\ DistinctNames(std_columns)) =>
        std_result.columns = ClaimInOrder(std_columns, 1, {})


\* the distinct values of a column in the order of their first appearance
FirstAppearance(cells) ==
    SelectRows(cells, [i \in DOMAIN cells |-> \A j \in 1..(i - 1) : cells[j] # cells[i]])

\* C22: the continuous table lists the series in the order in which each
\* series_id first appears in the table the timeline was built from, the rows
\* of a series together and in ascending date order.
C22_BlocksInInputOrder ==
    (result.op = "build_timeline" /\ result.error = "") =>
        LET input == read_csv(validated_file)
            given == Column(input.rows, IndexOf(input.header, "series_id"))
            series == Column(continuous_file.rows, 1)
            date(i) == Timestamp(continuous_file.rows[i][2])
        IN  /\ FirstAppearance(series)
                 = FirstAppearance(SelectRows(given, [i \in DOMAIN given |-> given[i] # NA]))
            /\ \A i, j, k \in DOMAIN series :
                  (i < j /\ j < k /\ series[i] = series[k]) => series[j] = series[i]
            /\ \A i, j \in DOMAIN series :
                  (i < j /\ series[i] = series[j]) => date(i) <= date(j)


\* the same value, whatever the dtype of its column made of its text
SameValue(a, b) ==
    \/ a = b
    \/ IsNumText(a) /\ IsNumText(b) /\ NumValue(a) = NumValue(b)

\* C23: the Timeline Builder loses no observation: every row of the validated
\* input is in the continuous table, under its series_id and timestamp, with
\* the values of its other columns; and a row of the continuous table whose
\* other columns are all null stands for a date on which the series had no
\* observation.
C23_NoObservationLost ==
    TimelineReturned =>
        LET others == Range(result.input.header) \ {"series_id", "date"}
        IN  /\ \A r \in DOMAIN result.input.rows :
                  \E q \in DOMAIN continuous_file.rows :
                      /\ SeriesOf(continuous_file, q) = SeriesOf(result.input, r)
                      /\ StampOf(continuous_file, q) = StampOf(result.input, r)
                      /\ \A c \in others :
                            SameValue(CellOf(continuous_file, q, c),
                                      CellOf(result.input, r, c))
            /\ \A q \in DOMAIN continuous_file.rows :
                  (\A c \in others : CellOf(continuous_file, q, c) = NA) =>
                      \A r \in DOMAIN result.input.rows :
                          ~(/\ SeriesOf(result.input, r) = SeriesOf(continuous_file, q)
                            /\ DayOf(StampOf(result.input, r))
                                   = DayOf(StampOf(continuous_file, q)))


\* C24: a pass of the cleanup thread keeps every uploaded .csv last modified
\* less than UPLOAD_RETENTION_HOURS ago and removes every .csv modified longer
\* ago than that, the file the latest-upload pointer names included; files that
\* are not .csv stay.
C24_SweepKeepsYoungDeletesOld ==
    [][CleanupPass =>
          /\ \A file \in GlobCsv(store) :
                /\ clock - file.stamp < UPLOAD_RETENTION_HOURS => file \in DOMAIN store'
                /\ clock - file.stamp > UPLOAD_RETENTION_HOURS => file \notin DOMAIN store'
          /\ \A file \in DOMAIN store \ GlobCsv(store) : file \in DOMAIN store']_vars


\* C25: ingest_data with use_existing=true and no file takes the latest-upload
\* pointer's file or fails: when the pointer is missing, or names a file that
\* is no longer in the uploads directory, the request ends with a not-found
\* error whatever other .csv files are stored, nothing is read, and the pointer
\* and the validated file stay as they are.
C25_NoFallbackForUseExisting ==
    [][(IngestExisting /\ (pointer = NoName \/ pointer \notin DOMAIN store)) =>
          /\ result'.op = "ingest_data"
          /\ result'.error \in {"404: No uploaded files available.",
                                "404: Latest upload file missing"}
          /\ request'.phase = "failed"
          /\ pointer' = pointer
          /\ validated_file' = validated_file]_vars

\* the pointer's file was swept while a newer .csv is stored, and the request
\* that reuses the latest upload answered not-found
C25_Witness_SweptPointerOtherCsv ==
    /\ result.op = "ingest_data"
    /\ result.error = "404: Latest upload file missing"
    /\ request.phase = "failed"
    /\ pointer # NoName
    /\ pointer \notin DOMAIN store
    /\ GlobCsv(store) # {}


\* a request of the named stage has just answered
StageStep(op) == result' # result /\ result'.op = op

\* C26: a stage writes its own output and no other file: validate_data only
\* the validated file, build_timeline only the continuous file, aggregate_data
\* only the daily, weekly and monthly files, an exploratory request none.  So
\* when validate_data has succeeded the continuous, daily, weekly and monthly
\* files are the ones it found, and an exploratory request for a grain whose
\* file exists reads that file.
C26_StagesWriteOwnFiles ==
    [][/\ StageStep("validate_data") =>
              UNCHANGED <<continuous_file, daily_file, weekly_file, monthly_file>>
       /\ StageStep("build_timeline") =>
              UNCHANGED <<validated_file, daily_file, weekly_file, monthly_file>>
       /\ StageStep("aggregate_data") => UNCHANGED <<validated_file, continuous_file>>
       /\ EdaStep =>
              /\ UNCHANGED files
              /\ GrainFile(eda'.granularity).exists =>
                     eda'.path = GrainPath(eda'.granularity)]_vars

\* the new upload is validated, the daily file is still the earlier run's, and
\* a daily exploratory request reads it
C26_Witness_OlderDailyData ==
    /\ result.op = "validate_data"
    /\ result.error = ""
    /\ result.input = uploaded
    /\ validated_file # EarlierValidated
    /\ daily_file = EarlierDaily
    /\ eda.granularity = "daily"
    /\ eda.path = "daily_data.csv"


\* C27: when no two columns of the input share a name, no two columns of the
\* table standardize_columns returns do: a column left unrenamed because its
\* canonical name was claimed does not carry that canonical name itself.
C27_NamesStayDistinct ==
    (std_result.done /\ DistinctNames(std_columns)) => DistinctNames(std_result.columns)


\* the path the most recent successful save_config of the environment wrote
LastSaved(env) ==
    IF \E i \in DOMAIN history : history[i].env = env
    THEN history[CHOOSE i \in DOMAIN history :
                     /\ history[i].env = env
                     /\ \A j \in DOMAIN history : history[j].env = env => j <= i]
    ELSE NoConfig

\* C28: load_config, and download_config without a path, answer with the
\* config the most recent successful save_config of that environment wrote,
\* whatever the names the configs were saved under; and a successful
\* save_config adds exactly one entry to the history, a rejected one none.
C28_LatestIsMostRecentSave ==
    [][/\ (/\ response' # response
           /\ response'.op \in {"load_config", "download_config"}
           /\ response'.status = 200) => response'.path = LastSaved(response'.env)
       /\ (response' # response /\ response'.op = "save_config") =>
              IF response'.status = 200
              THEN /\ Len(history') = Len(history) + 1
                   /\ SubSeq(history', 1, Len(history)) = history
              ELSE history' = history]_vars

====
